---- MODULE Spec2Model ----
(***************************************************************************)
(* css-modules-types-generator: the per-file pipeline (load, class         *)
(* extraction, name formatting, declaration emission, artifact write),     *)
(* the batch driver and the watch coordinator of the command line.         *)
(*                                                                         *)
(* Text is modelled as it is in the program: a class name and a path       *)
(* segment are sequences of one-character strings, a path is its leading   *)
(* "/" flag and its segments, an artifact is its sequence of lines.        *)
(***************************************************************************)
EXTENDS Integers, Sequences, FiniteSets, TLC

(***************************************************************************)
(* Characters                                                              *)
(***************************************************************************)
LowerAlpha ==
    << "a", "b", "c", "d", "e", "f", "g", "h", "i", "j", "k", "l", "m",
       "n", "o", "p", "q", "r", "s", "t", "u", "v", "w", "x", "y", "z" >>

UpperAlpha ==
    << "A", "B", "C", "D", "E", "F", "G", "H", "I", "J", "K", "L", "M",
       "N", "O", "P", "Q", "R", "S", "T", "U", "V", "W", "X", "Y", "Z" >>

DigitChars ==
    << "0", "1", "2", "3", "4", "5", "6", "7", "8", "9" >>

Range(s) ==
    { s[i] : i \in 1..Len(s) }

IsUpperChar(c) ==
    c \in Range(UpperAlpha)

IsLowerChar(c) ==
    c \in Range(LowerAlpha)

IsDigitChar(c) ==
    c \in Range(DigitChars)

IndexIn(s, c) ==
    CHOOSE i \in 1..Len(s) : s[i] = c

\* String.prototype.toLowerCase on one character.
CharToLowerCase(c) ==
    IF IsUpperChar(c) THEN LowerAlpha[IndexIn(UpperAlpha, c)] ELSE c

\* String.prototype.toUpperCase on one character.
CharToUpperCase(c) ==
    IF IsLowerChar(c) THEN UpperAlpha[IndexIn(LowerAlpha, c)] ELSE c

toLowerCase(s) ==
    [i \in 1..Len(s) |-> CharToLowerCase(s[i])]

toUpperCase(s) ==
    [i \in 1..Len(s) |-> CharToUpperCase(s[i])]

\* The string a character sequence spells.
RECURSIVE Str(_)
Str(s) ==
    IF s = << >> THEN "" ELSE Head(s) \o Str(Tail(s))

EndsWith(s, suffix) ==
    /\ Len(s) >= Len(suffix)
    /\ SubSeq(s, Len(s) - Len(suffix) + 1, Len(s)) = suffix

\* String.prototype.includes: needle occurs in s as a substring.
Includes(s, needle) ==
    \E i \in 0..(Len(s) - Len(needle)) : SubSeq(s, i + 1, i + Len(needle)) = needle

(***************************************************************************)
(* Name Formatter                                                          *)
(***************************************************************************)
IsDashOrUnderscore(c) ==
    c \in {"-", "_"}

\* name.split(/[-_]+/g): the pieces between maximal runs of "-" and "_",
\* the empty pieces at either end included.
RECURSIVE SplitFrom(_, _, _, _)
SplitFrom(name, i, acc, inRun) ==
    IF i > Len(name) THEN acc
    ELSE IF IsDashOrUnderscore(name[i])
         THEN SplitFrom(name, i + 1, IF inRun THEN acc ELSE Append(acc, << >>), TRUE)
         ELSE SplitFrom(name, i + 1,
                        [acc EXCEPT ![Len(acc)] = Append(@, name[i])], FALSE)

SplitDashUnderscore(name) ==
    SplitFrom(name, 1, << << >> >>, FALSE)

\* .filter(Boolean) on an array of strings: the empty strings are dropped.
FilterBoolean(parts) ==
    SelectSeq(parts, LAMBDA p : p # << >>)

\* /^[A-Z0-9_]+$/.test(part)
IsShouty(part) ==
    /\ part # << >>
    /\ \A i \in 1..Len(part) :
          IsUpperChar(part[i]) \/ IsDigitChar(part[i]) \/ part[i] = "_"

IsWordChar(c) ==
    IsUpperChar(c) \/ IsLowerChar(c) \/ IsDigitChar(c) \/ c = "_"

\* /^[a-z_$][\w$]*$/i.test(s)
IsBareIdentifier(s) ==
    /\ s # << >>
    /\ IsUpperChar(s[1]) \/ IsLowerChar(s[1]) \/ s[1] \in {"_", "$"}
    /\ \A i \in 2..Len(s) : IsWordChar(s[i]) \/ s[i] = "$"

Quote(s) ==
    << "'" >> \o s \o << "'" >>

\* part.charAt(0).toLowerCase() + part.slice(1)
LowerFirst(part) ==
    << CharToLowerCase(part[1]) >> \o Tail(part)

\* part.charAt(0).toUpperCase() + part.slice(1)
UpperFirst(part) ==
    << CharToUpperCase(part[1]) >> \o Tail(part)

\* CamelPart lower-casing only the first character of the first part.
CamelPartFirstCharOnly(part, i) ==
    IF i = 1
    THEN LowerFirst(part)
    ELSE IF IsShouty(part)
         THEN << CharToUpperCase(part[1]) >> \o toLowerCase(Tail(part))
         ELSE UpperFirst(part)

CamelPart(part, i) ==
    IF i = 1
    THEN IF IsShouty(part) THEN toLowerCase(part) ELSE LowerFirst(part)
    ELSE IF IsShouty(part)
         THEN << CharToUpperCase(part[1]) >> \o toLowerCase(Tail(part))
         ELSE UpperFirst(part)

RECURSIVE JoinParts(_, _)
JoinParts(parts, i) ==
    IF i > Len(parts) THEN << >> ELSE CamelPart(parts[i], i) \o JoinParts(parts, i + 1)

CamelOf(parts) ==
    JoinParts(parts, 1)

formatCamelCase(name) ==
    LET parts == FilterBoolean(SplitDashUnderscore(name))
        camel == CamelOf(parts)
    IN  IF Len(parts) = 0 THEN name
        ELSE IF IsBareIdentifier(camel) THEN camel ELSE Quote(camel)

formatClassName(name, nameFormat) ==
    CASE nameFormat = "camelCase" -> formatCamelCase(name)
      [] nameFormat = "dashes"    -> Quote(name)
      [] OTHER                    -> IF IsBareIdentifier(name) THEN name ELSE Quote(name)

(***************************************************************************)
(* Declaration Emitter                                                     *)
(***************************************************************************)
\* Array.prototype.join('\n'), as the lines of the joined text: joining no
\* element gives the empty string, which is one empty line.
JoinLines(items) ==
    IF items = << >> THEN << "" >> ELSE items

\* Array.from(new Set(...)): first-seen order, each element once.
RECURSIVE SetOrder(_)
SetOrder(s) ==
    IF s = << >> THEN << >>
    ELSE LET rest == SetOrder(SubSeq(s, 1, Len(s) - 1))
             x    == s[Len(s)]
         IN  IF x \in Range(rest) THEN rest ELSE Append(rest, x)

MapSeq(s, Op(_)) ==
    [i \in 1..Len(s) |-> Op(s[i])]

InterfaceMember(token) ==
    "  readonly " \o Str(token) \o ": string;"

NamedDeclaration(token) ==
    "export declare const " \o Str(token) \o ": string;"

\* A standalone declaration that is not exported.
DeclarationWithoutExport(token) ==
    "declare const " \o Str(token) \o ": string;"

BothDeclaration(token) ==
    "export const " \o Str(token) \o ": string;"

IndexSignature ==
    "  readonly [key: string]: string;"

\* classNamesType without the fallback for no class name.
classNamesTypeNoFallback(formattedClassNames) ==
    JoinLines(MapSeq(formattedClassNames, InterfaceMember))

\* The lines of `classNamesType`.
classNamesType(formattedClassNames) ==
    IF Len(formattedClassNames) > 0
    THEN JoinLines(MapSeq(formattedClassNames, InterfaceMember))
    ELSE << IndexSignature >>

DefaultBlock(formattedClassNames) ==
    << "export interface CssModuleClasses {" >>
    \o classNamesType(formattedClassNames)
    \o << "}",
          "",
          "export type ClassNames = keyof CssModuleClasses;",
          "",
          "declare const classes: CssModuleClasses;",
          "export default classes;" >>

\* generateTypeDefinition with 'both' replacing the default block by the
\* standalone declarations.
generateTypeDefinitionReplacing(classNames, exportType, nameFormat) ==
    LET formattedClassNames ==
            [i \in 1..Len(classNames) |-> formatClassName(classNames[i], nameFormat)]
    IN  CASE exportType = "named" ->
               JoinLines(MapSeq(formattedClassNames, NamedDeclaration))
          [] exportType = "both" ->
               JoinLines(MapSeq(formattedClassNames, BothDeclaration)) \o << "" >>
          [] OTHER ->
               DefaultBlock(formattedClassNames) \o << "" >>

\* The text of the artifact as its lines (the text split at "\n"): a final
\* empty line stands for a trailing line break.
generateTypeDefinition(classNames, exportType, nameFormat) ==
    LET formattedClassNames ==
            [i \in 1..Len(classNames) |-> formatClassName(classNames[i], nameFormat)]
    IN  CASE exportType = "named" ->
               JoinLines(MapSeq(formattedClassNames, NamedDeclaration))
          [] exportType = "both" ->
               DefaultBlock(formattedClassNames)
               \o << "" >>
               \o JoinLines(MapSeq(formattedClassNames, BothDeclaration))
               \o << "" >>
          [] OTHER ->
               DefaultBlock(formattedClassNames) \o << "" >>

(***************************************************************************)
(* Paths (node:path, POSIX)                                                *)
(***************************************************************************)
Path(abs, segs) ==
    [abs |-> abs, segs |-> segs]

DotSeg ==
    << "." >>

DotDotSeg ==
    << ".", "." >>

\* Removes "." segments and resolves ".." segments against what precedes them.
RECURSIVE NormalizeSegs(_, _, _)
NormalizeSegs(segs, abs, acc) ==
    IF segs = << >> THEN acc
    ELSE LET s == Head(segs)
         IN  IF s = DotSeg THEN NormalizeSegs(Tail(segs), abs, acc)
             ELSE IF s = DotDotSeg
                  THEN IF acc # << >> /\ acc[Len(acc)] # DotDotSeg
                       THEN NormalizeSegs(Tail(segs), abs, SubSeq(acc, 1, Len(acc) - 1))
                       ELSE IF abs THEN NormalizeSegs(Tail(segs), abs, acc)
                            ELSE NormalizeSegs(Tail(segs), abs, Append(acc, s))
                  ELSE NormalizeSegs(Tail(segs), abs, Append(acc, s))

PathNormalize(p) ==
    Path(p.abs, NormalizeSegs(p.segs, p.abs, << >>))

PathIsAbsolute(p) ==
    p.abs

\* path.resolve(from, p)
PathResolve(from, p) ==
    IF p.abs THEN PathNormalize(p)
    ELSE PathNormalize(Path(from.abs, from.segs \o p.segs))

\* path.join(a, b)
PathJoin(a, b) ==
    PathNormalize(Path(a.abs, a.segs \o b.segs))

RECURSIVE CommonPrefixLen(_, _)
CommonPrefixLen(a, b) ==
    IF a = << >> \/ b = << >> \/ Head(a) # Head(b) THEN 0
    ELSE 1 + CommonPrefixLen(Tail(a), Tail(b))

\* path.relative(from, to), both resolved against the working directory.
PathRelative(cwd, from, to) ==
    LET f == PathResolve(cwd, from).segs
        t == PathResolve(cwd, to).segs
        n == CommonPrefixLen(f, t)
    IN  Path(FALSE, [i \in 1..(Len(f) - n) |-> DotDotSeg] \o SubSeq(t, n + 1, Len(t)))

\* path.dirname(p): "." and "/" are the paths with no segment.
PathDirname(p) ==
    IF p.segs = << >> THEN p ELSE Path(p.abs, SubSeq(p.segs, 1, Len(p.segs) - 1))

LastDot(seg) ==
    IF \E i \in 1..Len(seg) : seg[i] = "."
    THEN CHOOSE i \in 1..Len(seg) :
            seg[i] = "." /\ \A j \in (i + 1)..Len(seg) : seg[j] # "."
    ELSE 0

\* path.extname(p): from the last "." of the last segment, "" when there is
\* none or when it is the segment's first character.
PathExtname(p) ==
    IF p.segs = << >> THEN << >>
    ELSE LET seg == p.segs[Len(p.segs)]
             d   == LastDot(seg)
         IN  IF d <= 1 THEN << >> ELSE SubSeq(seg, d, Len(seg))

\* `${p}${suffix}`: the suffix is appended to the path's text.
PathAppend(p, suffix) ==
    Path(p.abs, [p.segs EXCEPT ![Len(p.segs)] = @ \o suffix])

RECURSIVE JoinSegs(_)
JoinSegs(segs) ==
    IF segs = << >> THEN ""
    ELSE IF Len(segs) = 1 THEN Str(segs[1])
         ELSE Str(segs[1]) \o "/" \o JoinSegs(Tail(segs))

\* The text of a path.
PathStr(p) ==
    IF p.segs = << >> THEN (IF p.abs THEN "/" ELSE ".")
    ELSE (IF p.abs THEN "/" ELSE "") \o JoinSegs(p.segs)

DtsSuffix ==
    << ".", "d", ".", "t", "s" >>

AutoOutput ==
    Path(FALSE, << << "a", "u", "t", "o" >> >>)

\* An option that was given (def) with its value, or one left undefined.
Given(v) ==
    [def |-> TRUE, val |-> v]

Undefined ==
    [def |-> FALSE]

\* options.x || dflt
OrDefault(opt, dflt) ==
    IF opt.def THEN opt.val ELSE dflt

\* getOutputPath joining the output directory with the path as given.
getOutputPathAsGiven(filePath, output, cwd) ==
    IF output = AutoOutput THEN PathAppend(filePath, DtsSuffix)
    ELSE PathJoin(output, PathAppend(filePath, DtsSuffix))

\* getOutputPath joining the output directory with the file's name alone.
getOutputPathFlat(filePath, output, cwd) ==
    IF output = AutoOutput THEN PathAppend(filePath, DtsSuffix)
    ELSE PathJoin(output, PathAppend(Path(FALSE, << filePath.segs[Len(filePath.segs)] >>),
                                     DtsSuffix))

\* CssModulesTypesGenerator.getOutputPath, for a generator whose resolved
\* output option is `output`, in working directory `cwd`.
getOutputPath(filePath, output, cwd) ==
    IF output = AutoOutput THEN PathAppend(filePath, DtsSuffix)
    ELSE PathJoin(output, PathAppend(PathRelative(cwd, cwd, filePath), DtsSuffix))

(***************************************************************************)
(* The file tree and the command line's inputs                             *)
(***************************************************************************)
\* process.cwd(): "/p"
Cwd ==
    Path(TRUE, << << "p" >> >>)

\* src/a.module.css
FileA ==
    Path(FALSE, << << "s", "r", "c" >>,
                   << "a", ".", "m", "o", "d", "u", "l", "e", ".", "c", "s", "s" >> >>)

\* src/ui/b.module.scss
FileB ==
    Path(FALSE, << << "s", "r", "c" >>, << "u", "i" >>,
                   << "b", ".", "m", "o", "d", "u", "l", "e", ".", "s", "c", "s", "s" >> >>)

\* The stylesheets of the tree, in the order discovery lists them.
SourceFiles ==
    << FileA, FileB >>

\* src/plain.css: a stylesheet that is no module.
FilePlain ==
    Path(FALSE, << << "s", "r", "c" >>, << "p", "l", "a", "i", "n", ".", "c", "s", "s" >> >>)

\* src/ui/c.module.SCSS: a module stylesheet named in upper case.
FileUpper ==
    Path(FALSE, << << "s", "r", "c" >>, << "u", "i" >>,
                   << "c", ".", "m", "o", "d", "u", "l", "e", ".", "S", "C", "S", "S" >> >>)

\* src/layout/d.module.css
FileLayout ==
    Path(FALSE, << << "s", "r", "c" >>, << "l", "a", "y", "o", "u", "t" >>,
                   << "d", ".", "m", "o", "d", "u", "l", "e", ".", "c", "s", "s" >> >>)

\* Every stylesheet a tree may hold, in the order discovery lists them.
TreeFiles ==
    SourceFiles \o << FilePlain, FileUpper, FileLayout >>

AbsFiles ==
    { PathResolve(Cwd, f) : f \in Range(SourceFiles) }

\* The file a path names: the text of the path, resolved.
Key(p) ==
    PathStr(PathResolve(Cwd, p))

SourceKeys ==
    { Key(f) : f \in Range(SourceFiles) }

\* src/**/*.module.{css,scss}
TreePattern ==
    Path(FALSE, << << "s", "r", "c" >>, << "*", "*" >>,
                   << "*", ".", "m", "o", "d", "u", "l", "e", ".",
                      "{", "c", "s", "s", ",", "s", "c", "s", "s", "}" >> >>)

\* src/**/*.css
StylesPattern ==
    Path(FALSE, << << "s", "r", "c" >>, << "*", "*" >>, << "*", ".", "c", "s", "s" >> >>)

\* types
TypesDir ==
    Path(FALSE, << << "t", "y", "p", "e", "s" >> >>)

ClassTest ==
    << "t", "e", "s", "t" >>

ClassButtonPrimary ==
    << "b", "u", "t", "t", "o", "n", "-", "p", "r", "i", "m", "a", "r", "y" >>

ClassContainer ==
    << "c", "o", "n", "t", "a", "i", "n", "e", "r" >>

\* The texts a stylesheet may hold, by name; Absent: there is no such file.
CssOne == "one"

CssTwo == "two"

CssUnreadable == "unreadable"

CssInvalid == "invalid"

Absent == "absent"

Contents ==
    { CssOne, CssTwo, CssUnreadable, CssInvalid }

\* What a text is to the pipeline: the local classes its selectors name, in
\* source order; or text the loader cannot turn into CSS ("loadfail":
\* unreadable, or a compile error); or CSS the scoping engine rejects
\* ("extractfail").
Css(text) ==
    CASE text = CssOne ->
           [kind |-> "ok", classes |-> << ClassTest, ClassButtonPrimary, ClassTest >>]
      [] text = CssTwo ->
           [kind |-> "ok", classes |-> << ClassContainer >>]
      [] text = CssUnreadable ->
           [kind |-> "loadfail", classes |-> << >>]
      [] text = CssInvalid ->
           [kind |-> "extractfail", classes |-> << >>]
      [] OTHER ->
           [kind |-> "absent", classes |-> << >>]

ExportTypes ==
    { "default", "named", "both" }

NameFormats ==
    { "camelCase", "dashes", "original" }

\* What keeps an artifact from being written for a source: nothing, a parent
\* directory that cannot be created, or a file that cannot be written.
DenyKinds ==
    { "none", "mkdir", "write" }

(***************************************************************************)
(* Bounds                                                                  *)
(***************************************************************************)
\* Changes the user makes to the tree during one run.
MaxEdits == 2

\* generate() calls in flight at once.
MaxCalls == 2

\* Watcher events waiting for delivery.
MaxQueue == 2

\* Invocations of the command line over one tree.
MaxRuns == 2

(***************************************************************************)
(* State                                                                   *)
(***************************************************************************)
VARIABLES
    options,    \* the command line's parsed options (generatorOptions)
    fsSrc,      \* the stylesheets on disk: file -> text or Absent
    fsArt,      \* the artifacts on disk: file -> lines
    denied,     \* the filesystem's refusals: source file -> DenyKinds
    pc,         \* where the command's action stands
    calls,      \* the generate() calls in flight, oldest first
    queue,      \* watcher events not yet delivered, oldest first
    watchDirs,  \* the directories the watcher observes
    errLog,     \* console.error: the paths of the per-file errors reported
    genLog,     \* console.info "Generated types for <file> -> <out>", with the
                \* call that wrote and the CSS it had loaded
    edits,      \* changes made to the tree so far
    runs,       \* invocations of the command so far
    prevArt,    \* the artifacts as the previous invocation left them
    input,      \* the arguments of a function applied on its own
    result      \* what the function returned

\* The state of a run of the command.
sys ==
    << options, fsSrc, fsArt, denied, pc, calls, queue, watchDirs,
       errLog, genLog, edits, runs, prevArt >>

\* The state of a function applied on its own.
call ==
    << input, result >>

vars ==
    << sys, call >>

(***************************************************************************)
(* Generator                                                               *)
(***************************************************************************)
\* The empty string given as the output directory.
EmptyOutput ==
    Path(FALSE, << >>)

\* A string option as `||` sees it: the empty string is falsy, and gives
\* way to the default as an undefined one does.
Truthy(opt) ==
    IF opt.def /\ opt.val = EmptyOutput THEN Undefined ELSE opt

\* The constructor with 'named' as the default export shape.
ConstructorDefaultNamed(o) ==
    [ pattern    |-> o.pattern,
      output     |-> OrDefault(Truthy(o.output), AutoOutput),
      watch      |-> OrDefault(o.watch, FALSE),
      exportType |-> OrDefault(o.exportType, "named"),
      nameFormat |-> OrDefault(o.nameFormat, "camelCase"),
      debug      |-> OrDefault(o.debug, FALSE) ]

\* CssModulesTypesGenerator constructor: every field resolved.  (For the
\* boolean fields, whose default is false, `||` keeps every given value.)
Constructor(o) ==
    [ pattern    |-> o.pattern,
      output     |-> OrDefault(Truthy(o.output), AutoOutput),
      watch      |-> OrDefault(o.watch, FALSE),
      exportType |-> OrDefault(o.exportType, "default"),
      nameFormat |-> OrDefault(o.nameFormat, "camelCase"),
      debug      |-> OrDefault(o.debug, FALSE) ]

HasMagic(pattern) ==
    \E i \in 1..Len(pattern.segs) :
        \E j \in 1..Len(pattern.segs[i]) : pattern.segs[i][j] \in {"*", "{", "?", "["}

Exists(fs, file) ==
    Key(file) \in DOMAIN fs /\ fs[Key(file)] # Absent

\* The index of the "}" that closes the brace opened before position i.
RECURSIVE BraceEnd(_, _)
BraceEnd(pat, i) ==
    IF i > Len(pat) THEN 0 ELSE IF pat[i] = "}" THEN i ELSE BraceEnd(pat, i + 1)

\* The alternatives between a "{" and its "}", split at ",".
RECURSIVE SplitComma(_, _, _)
SplitComma(body, i, acc) ==
    IF i > Len(body) THEN acc
    ELSE IF body[i] = ","
         THEN SplitComma(body, i + 1, Append(acc, << >>))
         ELSE SplitComma(body, i + 1, [acc EXCEPT ![Len(acc)] = Append(@, body[i])])

\* A pattern segment matches a path segment: "*" stands for any run of
\* characters, "{a,b}" for one of its alternatives, every other character
\* for itself (case matters, as it does on a POSIX system).
RECURSIVE SegMatch(_, _)
SegMatch(pat, seg) ==
    IF pat = << >> THEN seg = << >>
    ELSE IF pat[1] = "*"
         THEN SegMatch(Tail(pat), seg) \/ (seg # << >> /\ SegMatch(pat, Tail(seg)))
    ELSE IF pat[1] = "{" /\ BraceEnd(pat, 2) > 0
         THEN LET e == BraceEnd(pat, 2)
                  alts == SplitComma(SubSeq(pat, 2, e - 1), 1, << << >> >>)
              IN  \E a \in 1..Len(alts) :
                      SegMatch(alts[a] \o SubSeq(pat, e + 1, Len(pat)), seg)
    ELSE seg # << >> /\ seg[1] = pat[1] /\ SegMatch(Tail(pat), Tail(seg))

\* A pattern's segments match a path's: "**" stands for any number of
\* directories, none included.
RECURSIVE SegsMatch(_, _)
SegsMatch(pats, segs) ==
    IF pats = << >> THEN segs = << >>
    ELSE IF pats[1] = << "*", "*" >>
         THEN SegsMatch(Tail(pats), segs) \/ (segs # << >> /\ SegsMatch(pats, Tail(segs)))
    ELSE segs # << >> /\ SegMatch(pats[1], segs[1]) /\ SegsMatch(Tail(pats), Tail(segs))

\* The files of the tree a pattern selects, in the pattern's own form
\* (absolute for an absolute pattern): the discovery collaborator's answer.
\* A pattern without wildcard names one file.
glob(pattern, fs) ==
    IF HasMagic(pattern)
    THEN SelectSeq([i \in 1..Len(TreeFiles) |->
                       IF pattern.abs THEN PathResolve(Cwd, TreeFiles[i])
                       ELSE TreeFiles[i]],
                   LAMBDA f : Exists(fs, f) /\ SegsMatch(pattern.segs, f.segs))
    ELSE IF Exists(fs, pattern) THEN << pattern >> ELSE << >>

ScssExt ==
    << ".", "s", "c", "s", "s" >>

SassExt ==
    << ".", "s", "a", "s", "s" >>

\* processFile up to its await: the loader. ok is FALSE when it throws.
LoadCss(filePath, fs) ==
    LET ext  == PathExtname(filePath)
        text == IF Key(filePath) \in DOMAIN fs THEN fs[Key(filePath)] ELSE Absent
        via  == IF ext = ScssExt \/ ext = SassExt THEN "sass" ELSE "read"
    IN  [ ok  |-> Css(text).kind \notin {"absent", "loadfail"},
          css |-> [text |-> text, via |-> via] ]

NoCss ==
    [text |-> Absent, via |-> "read"]

\* The keys the scoping engine delivers, added to the Set one by one.
ExtractClassNames(css) ==
    SetOrder(Css(css.text).classes)

\* A write that appends to what the file holds.
writeFileAppend(fs, path, text) ==
    [q \in (DOMAIN fs) \cup {path} |->
        IF q = path THEN (IF path \in DOMAIN fs THEN fs[path] \o text ELSE text)
        ELSE fs[q]]

\* fs.writeFileSync(path, text): the file holds exactly the text.
writeFileSync(fs, path, text) ==
    [q \in (DOMAIN fs) \cup {path} |-> IF q = path THEN text ELSE fs[q]]

\* fs.unlinkSync(path)
unlinkSync(fs, path) ==
    [q \in (DOMAIN fs) \ {path} |-> fs[q]]

existsSync(fs, path) ==
    path \in DOMAIN fs

NewCall(by, opts) ==
    [ by |-> by, opts |-> Constructor(opts), stage |-> "glob",
      files |-> << >>, i |-> 0, css |-> NoCss ]

RemoveAt(s, k) ==
    SubSeq(s, 1, k - 1) \o SubSeq(s, k + 1, Len(s))

\* Where the command's action continues when its own generate() resolves.
AfterGenerate ==
    IF OrDefault(options.watch, FALSE) THEN "dirs" ELSE "exited"

\* calls and pc once call k is past files[i]: the next file's turn, or the
\* end of the loop, where generate() resolves.
Advance(k) ==
    LET c == calls[k]
    IN  IF c.i < Len(c.files)
        THEN /\ calls' = [calls EXCEPT ![k] = [c EXCEPT !.stage = "load", !.i = c.i + 1,
                                                        !.css = NoCss]]
             /\ pc' = pc
        ELSE /\ calls' = RemoveAt(calls, k)
             /\ pc' = IF c.by = "cli" THEN AfterGenerate ELSE pc

(***************************************************************************)
(* The watcher: what it observes and what it reports                       *)
(***************************************************************************)
RECURSIVE PathChars(_)
PathCharsOfSegs(segs) ==
    IF segs = << >> THEN << >>
    ELSE IF Len(segs) = 1 THEN segs[1]
         ELSE segs[1] \o << "/" >> \o PathChars(Path(FALSE, Tail(segs)))

\* The characters of a path's text.
PathChars(p) ==
    IF p.segs = << >> THEN (IF p.abs THEN << "/" >> ELSE << "." >>)
    ELSE (IF p.abs THEN << "/" >> ELSE << >>) \o PathCharsOfSegs(p.segs)

IgnoredWords ==
    { << "n", "o", "d", "e", "_", "m", "o", "d", "u", "l", "e", "s" >>,
      << "d", "i", "s", "t" >>,
      << "b", "u", "i", "l", "d" >>,
      << "o", "u", "t", "p", "u", "t" >>,
      << "o", "u", "t" >> }

\* The ignore rules without the one for declaration files.
IgnoredWithoutDts(p) ==
    \E w \in IgnoredWords : Includes(PathChars(p), w)

\* ignored: [/node_modules/, /dist/, /build/, /output/, /out/, /\.d\.ts$/]
Ignored(p) ==
    \/ \E w \in IgnoredWords : Includes(PathChars(p), w)
    \/ EndsWith(PathChars(p), DtsSuffix)

IsPrefix(a, b) ==
    Len(a) <= Len(b) /\ SubSeq(b, 1, Len(a)) = a

\* The path lies in or under one of the directories: the watcher observes
\* a directory with everything below it.
ObservedBy(dirs, p) ==
    \E d \in dirs :
        IsPrefix(PathResolve(Cwd, d).segs, PathResolve(Cwd, PathDirname(p)).segs)

\* The path lies in or under an observed directory.
Watched(p) ==
    ObservedBy(watchDirs, p)

\* The path an event carries: in the form of the observed directories.
EventPath(a) ==
    IF options.pattern.abs THEN a ELSE PathRelative(Cwd, Cwd, a)

\* The queue with the watcher's event for a change on disk at absolute
\* path a: there is one for a path under an observed directory that no
\* ignore rule excludes.
NotifyOn(q, kind, a) ==
    LET p == EventPath(a)
    IN  IF pc = "active" /\ Watched(p) /\ ~Ignored(p)
        THEN Append(q, [kind |-> kind, path |-> p])
        ELSE q

\* The watcher's events for a change of the tree at absolute path a.
Notify(kind, a) ==
    NotifyOn(queue, kind, a)

(***************************************************************************)
(* Batch Driver: generate() and processFile()                              *)
(***************************************************************************)
\* processFile without its try/catch: the error leaves generate(), whose
\* promise rejects with nobody to handle it.
Rethrown(k, filePath) ==
    /\ errLog' = errLog
    /\ calls' = RemoveAt(calls, k)
    /\ pc' = "crashed"

\* The catch of processFile in call k: the error is reported with the
\* file's path and processFile's promise resolves, so the loop goes on.
Caught(k, filePath) ==
    /\ errLog' = errLog \cup {filePath}
    /\ Advance(k)

\* The action going on to the watcher without awaiting the batch pass.
StartWithoutAwait ==
    /\ pc = "start"
    /\ pc' = IF OrDefault(options.watch, FALSE) THEN "dirs" ELSE "generating"
    /\ calls' = << [ by |-> "cli", opts |-> Constructor(options), stage |-> "glob",
                     files |-> << >>, i |-> 0, css |-> [text |-> "absent", via |-> "read"] ] >>
    /\ UNCHANGED << input, result >>
    /\ UNCHANGED << options, fsSrc, fsArt, denied, queue, watchDirs,
                    errLog, genLog, edits, runs, prevArt >>

\* The command's action starts: generateCssModuleTypes(generatorOptions)
\* builds a generator and generate() suspends on discovery.
Start ==
    /\ pc = "start"
    /\ pc' = "generating"
    /\ calls' = << NewCall("cli", options) >>
    /\ UNCHANGED call
    /\ UNCHANGED << options, fsSrc, fsArt, denied, queue, watchDirs,
                    errLog, genLog, edits, runs, prevArt >>

\* `await glob(pattern)` resolves in call k.
GlobDone(k) ==
    /\ calls[k].stage = "glob"
    /\ LET files == glob(calls[k].opts.pattern, fsSrc)
       IN  IF files = << >>
           THEN /\ calls' = RemoveAt(calls, k)
                /\ pc' = IF calls[k].by = "cli" THEN AfterGenerate ELSE pc
           ELSE /\ calls' = [calls EXCEPT ![k] = [@ EXCEPT !.stage = "load",
                                                           !.files = files, !.i = 1]]
                /\ pc' = pc
    /\ UNCHANGED call
    /\ UNCHANGED << options, fsSrc, fsArt, denied, queue, watchDirs,
                    errLog, genLog, edits, runs, prevArt >>

\* processFile(files[i]) runs to its await: the file is loaded; a loader
\* error is caught and reported, and the loop goes on.
LoadFile(k) ==
    /\ calls[k].stage = "load"
    /\ LET c    == calls[k]
           file == c.files[c.i]
           r    == LoadCss(file, fsSrc)
       IN  IF r.ok
           THEN /\ calls' = [calls EXCEPT ![k] = [c EXCEPT !.stage = "extract",
                                                           !.css = r.css]]
                /\ pc' = pc
                /\ errLog' = errLog
           ELSE Caught(k, file)
    /\ UNCHANGED call
    /\ UNCHANGED << options, fsSrc, fsArt, denied, queue, watchDirs,
                    genLog, edits, runs, prevArt >>

\* What processFile does once the scoping engine has answered: the outcome
\* ("extract", "mkdir", "write" name the step that threw), the artifact path
\* and the artifact text.
Emit(c) ==
    LET file       == c.files[c.i]
        classNames == ExtractClassNames(c.css)
        text       == generateTypeDefinition(classNames, c.opts.exportType,
                                             c.opts.nameFormat)
        outputPath == getOutputPath(file, c.opts.output, Cwd)
        deny       == denied[Key(file)]
    IN  [ outcome |-> IF Css(c.css.text).kind = "extractfail" THEN "extract"
                      ELSE IF deny = "mkdir" THEN "mkdir"
                      ELSE IF deny = "write" THEN "write"
                      ELSE "written",
          file |-> file, outputPath |-> outputPath, text |-> text ]

\* The await of the scoping engine resolves in call k: the artifact is
\* written, or the error caught and reported; then the loop goes on.  The
\* write is a change on disk like any other to a watcher that is active.
ExtractDone(k) ==
    /\ calls[k].stage = "extract"
    /\ LET c == calls[k]
           e == Emit(c)
       IN  /\ IF e.outcome = "written"
              THEN /\ fsArt' = writeFileSync(fsArt, Key(e.outputPath), e.text)
                   /\ queue' = NotifyOn(queue,
                                        IF existsSync(fsArt, Key(e.outputPath))
                                        THEN "change" ELSE "add",
                                        PathResolve(Cwd, e.outputPath))
                   /\ genLog' = genLog \cup
                         { [file |-> e.file, out |-> e.outputPath, by |-> c.by,
                            css |-> c.css] }
                   /\ errLog' = errLog
                   /\ Advance(k)
              ELSE /\ Caught(k, e.file)
                   /\ UNCHANGED << fsArt, genLog, queue >>
    /\ UNCHANGED call
    /\ UNCHANGED << options, fsSrc, denied, watchDirs, edits, runs, prevArt >>

\* The command is run again over the tree as the last run left it.
RunAgain ==
    /\ pc = "exited"
    /\ runs < MaxRuns
    /\ runs' = runs + 1
    /\ prevArt' = fsArt
    /\ pc' = "generating"
    /\ calls' = << NewCall("cli", options) >>
    /\ errLog' = {}
    /\ genLog' = {}
    /\ UNCHANGED call
    /\ UNCHANGED << options, fsSrc, fsArt, denied, queue, watchDirs, edits >>

(***************************************************************************)
(* Watch Coordinator                                                       *)
(***************************************************************************)
\* pattern.split('/')[1] || ''
projectDir(pattern) ==
    LET pieces == IF pattern.abs THEN << << >> >> \o pattern.segs ELSE pattern.segs
    IN  IF Len(pieces) >= 2 THEN pieces[2] ELSE << >>

\* The while loop of getDirectoriesToWatch from `parent`.
RECURSIVE ParentDirs(_, _)
ParentDirs(parent, includeFilter) ==
    IF parent.segs = << >> THEN {}
    ELSE LET up == PathDirname(parent)
         IN  (IF includeFilter = << >> \/ Includes(PathChars(up), includeFilter)
              THEN {up} ELSE {})
             \cup ParentDirs(up, includeFilter)

getDirectoriesToWatch(initialFiles, includeFilter) ==
    UNION { {PathDirname(initialFiles[i])}
            \cup ParentDirs(PathDirname(initialFiles[i]), includeFilter)
            : i \in 1..Len(initialFiles) }

\* The await of getDirectoriesToWatch's glob resolves; the watcher is
\* created over the directories and the handlers are registered.
DirsGlobDone ==
    /\ pc = "dirs"
    /\ watchDirs' = getDirectoriesToWatch(glob(options.pattern, fsSrc),
                                          projectDir(options.pattern))
    /\ pc' = "active"
    /\ UNCHANGED call
    /\ UNCHANGED << options, fsSrc, fsArt, denied, calls, queue,
                    errLog, genLog, edits, runs, prevArt >>

\* The user creates or rewrites a stylesheet.
EnvWrite(a, content) ==
    /\ pc \in {"generating", "dirs", "active"}
    /\ edits < MaxEdits
    /\ Len(queue) < MaxQueue
    /\ fsSrc[Key(a)] # content
    /\ fsSrc' = [fsSrc EXCEPT ![Key(a)] = content]
    /\ queue' = Notify(IF fsSrc[Key(a)] = Absent THEN "add" ELSE "change", a)
    /\ edits' = edits + 1
    /\ UNCHANGED call
    /\ UNCHANGED << options, fsArt, denied, pc, calls, watchDirs,
                    errLog, genLog, runs, prevArt >>

\* The user removes a stylesheet.
EnvRemove(a) ==
    /\ pc \in {"generating", "dirs", "active"}
    /\ edits < MaxEdits
    /\ Len(queue) < MaxQueue
    /\ fsSrc[Key(a)] # Absent
    /\ fsSrc' = [fsSrc EXCEPT ![Key(a)] = Absent]
    /\ queue' = Notify("unlink", a)
    /\ edits' = edits + 1
    /\ UNCHANGED call
    /\ UNCHANGED << options, fsArt, denied, pc, calls, watchDirs,
                    errLog, genLog, runs, prevArt >>

ModuleSuffixes ==
    { << ".", "m", "o", "d", "u", "l", "e", ".", "c", "s", "s" >>,
      << ".", "m", "o", "d", "u", "l", "e", ".", "s", "c", "s", "s" >>,
      << ".", "m", "o", "d", "u", "l", "e", ".", "s", "a", "s", "s" >> }

CssSuffixes ==
    { << ".", "c", "s", "s" >>, << ".", "s", "c", "s", "s" >>, << ".", "s", "a", "s", "s" >> }

\* The relevance test without the ".module" part.
anyCssFilePattern(filePath) ==
    \E sfx \in CssSuffixes : EndsWith(toLowerCase(PathChars(filePath)), sfx)

\* moduleCssFilePattern.test(filePath): /\.module\.(?:css|scss|sass)$/i
moduleCssFilePattern(filePath) ==
    \E sfx \in ModuleSuffixes : EndsWith(toLowerCase(PathChars(filePath)), sfx)

\* path.isAbsolute(filePath) ? filePath : path.resolve(process.cwd(), filePath)
absoluteFilePath(filePath) ==
    IF PathIsAbsolute(filePath) THEN filePath ELSE PathResolve(Cwd, filePath)

\* const { pattern, ...otherOptions } = generatorOptions
otherOptions(o) ==
    [ output |-> o.output, watch |-> o.watch, exportType |-> o.exportType,
      nameFormat |-> o.nameFormat, debug |-> o.debug ]

\* processSingleFile(filePath, options) up to generate()'s first await:
\* { pattern: filePath, ...options }
processSingleFile(filePath, opts) ==
    NewCall("watch",
            [ pattern |-> filePath, output |-> opts.output, watch |-> opts.watch,
              exportType |-> opts.exportType, nameFormat |-> opts.nameFormat,
              debug |-> opts.debug ])

\* The body the change and add handlers share, for the event at the head of
\* the queue: the relevance test, then processSingleFile on the absolute path.
Regenerate ==
    /\ queue' = Tail(queue)
    /\ IF moduleCssFilePattern(Head(queue).path)
       THEN /\ Len(calls) < MaxCalls
            /\ calls' = Append(calls,
                               processSingleFile(absoluteFilePath(Head(queue).path),
                                                 otherOptions(options)))
       ELSE calls' = calls
    /\ UNCHANGED call
    /\ UNCHANGED << options, fsSrc, fsArt, denied, pc, watchDirs,
                    errLog, genLog, edits, runs, prevArt >>

\* watcher.on('change')
OnChange ==
    /\ pc = "active"
    /\ queue # << >>
    /\ Head(queue).kind = "change"
    /\ Regenerate

\* watcher.on('add')
OnAdd ==
    /\ pc = "active"
    /\ queue # << >>
    /\ Head(queue).kind = "add"
    /\ Regenerate

\* typesFilePath of the unlink handler; path.join throws a TypeError on an
\* argument that is not a string.
typesFilePath(output, abs) ==
    IF output = Given(AutoOutput)
    THEN [threw |-> FALSE, path |-> PathAppend(abs, DtsSuffix)]
    ELSE IF ~output.def
         THEN [threw |-> TRUE, path |-> abs]
         ELSE [threw |-> FALSE,
               path  |-> PathJoin(output.val,
                                  PathAppend(PathRelative(Cwd, Cwd, abs), DtsSuffix))]

\* The unlink handler. An exception it throws is caught by nobody: the
\* process ends.
OnUnlink ==
    /\ pc = "active"
    /\ queue # << >>
    /\ Head(queue).kind = "unlink"
    /\ IF ~moduleCssFilePattern(Head(queue).path)
       THEN /\ queue' = Tail(queue)
            /\ UNCHANGED << fsArt, pc, calls >>
       ELSE LET t == typesFilePath(options.output, absoluteFilePath(Head(queue).path))
                a == Key(t.path)
            IN  IF t.threw
                THEN /\ pc' = "crashed"
                     /\ queue' = << >>
                     /\ calls' = << >>
                     /\ fsArt' = fsArt
                ELSE /\ queue' = IF existsSync(fsArt, a)
                                 THEN NotifyOn(Tail(queue), "unlink",
                                               PathResolve(Cwd, t.path))
                                 ELSE Tail(queue)
                     /\ fsArt' = IF existsSync(fsArt, a) THEN unlinkSync(fsArt, a)
                                 ELSE fsArt
                     /\ UNCHANGED << pc, calls >>
    /\ UNCHANGED call
    /\ UNCHANGED << options, fsSrc, denied, watchDirs, errLog, genLog,
                    edits, runs, prevArt >>

(***************************************************************************)
(* Specifications                                                          *)
(***************************************************************************)
NoValue ==
    [done |-> FALSE]

Returned(v) ==
    [done |-> TRUE, val |-> v]

CliOptions(watch) ==
    [ pattern    : {TreePattern, PathResolve(Cwd, TreePattern)},
      output     : {Undefined, Given(AutoOutput), Given(TypesDir)},
      watch      : {watch},
      exportType : {Given(e) : e \in ExportTypes},
      nameFormat : {Given("camelCase")},
      debug      : {Undefined} ]

InitWith(opts, trees, denials) ==
    /\ options \in opts
    /\ fsSrc \in trees
    /\ denied \in denials
    /\ fsArt = << >>
    /\ pc = "start"
    /\ calls = << >>
    /\ queue = << >>
    /\ watchDirs = {}
    /\ errLog = {}
    /\ genLog = {}
    /\ edits = 0
    /\ runs = 1
    /\ prevArt = << >>

\* The export shapes the watch runs are started with.
WatchExportTypes ==
    {"default", "named"}

\* Watch mode: css-types-gen <pattern> --watch
Init ==
    /\ InitWith({ o \in CliOptions(Given(TRUE)) : o.exportType.val \in WatchExportTypes },
                [SourceKeys -> {CssOne, CssUnreadable}],
                {[a \in SourceKeys |-> "none"]})
    /\ input = NoValue
    /\ result = NoValue

Next ==
    \/ Start
    \/ \E k \in 1..Len(calls) : GlobDone(k)
    \/ \E k \in 1..Len(calls) : LoadFile(k)
    \/ \E k \in 1..Len(calls) : ExtractDone(k)
    \/ DirsGlobDone
    \/ \E a \in AbsFiles : \E c \in {CssOne, CssTwo} : EnvWrite(a, c)
    \/ \E a \in AbsFiles : EnvRemove(a)
    \/ OnChange
    \/ OnAdd
    \/ OnUnlink

Spec ==
    Init /\ [][Next]_vars

\* One-off generation, run MaxRuns times over an unchanging tree.
InitBatch ==
    /\ InitWith(CliOptions(Undefined),
                [SourceKeys -> Contents \cup {Absent}],
                [SourceKeys -> DenyKinds])
    /\ input = NoValue
    /\ result = NoValue

NextBatch ==
    \/ Start
    \/ \E k \in 1..Len(calls) : GlobDone(k)
    \/ \E k \in 1..Len(calls) : LoadFile(k)
    \/ \E k \in 1..Len(calls) : ExtractDone(k)
    \/ RunAgain

SpecBatch ==
    InitBatch /\ [][NextBatch]_vars

\* A run of the command that never starts: the state beside a function
\* applied on its own.
Idle ==
    InitWith({[ pattern |-> TreePattern, output |-> Undefined, watch |-> Undefined,
                exportType |-> Given("default"), nameFormat |-> Given("camelCase"),
                debug |-> Undefined ]},
             {[a \in SourceKeys |-> Absent]},
             {[a \in SourceKeys |-> "none"]})

(***************************************************************************)
(* formatClassName applied on its own                                      *)
(***************************************************************************)
MaxNameLen == 4

NameChars ==
    { "a", "B", "1", "-", "_" }

RECURSIVE SeqsUpTo(_, _)
\* The sequences over S of length 1..n.
SeqsUpTo(S, n) ==
    IF n = 0 THEN {}
    ELSE LET shorter == SeqsUpTo(S, n - 1)
         IN  { << x >> : x \in S } \cup shorter
             \cup { Append(s, x) : s \in shorter, x \in S }

ClassNames ==
    SeqsUpTo(NameChars, MaxNameLen)

InitFormat ==
    /\ Idle
    /\ input \in [name : ClassNames, nameFormat : NameFormats]
    /\ result = NoValue

Format ==
    /\ ~result.done
    /\ result' = Returned(formatClassName(input.name, input.nameFormat))
    /\ UNCHANGED << input, sys >>

SpecFormat ==
    InitFormat /\ [][Format]_vars

(***************************************************************************)
(* getOutputPath applied on its own                                        *)
(***************************************************************************)
MaxDirs == 2

SegStyles ==
    << "s", "t", "y", "l", "e", "s" >>

SegTestCss ==
    << "t", "e", "s", "t", ".", "c", "s", "s" >>

\* styles/test.css
StylesTestCss ==
    Path(FALSE, << SegStyles, SegTestCss >>)

DirSegs ==
    { SegStyles, << "p" >>, DotDotSeg }

FileSegs ==
    { SegTestCss, FileB.segs[3] }

\* Paths of files: up to MaxDirs directories and a file name, relative
\* (and then not leaving the working directory's root) or absolute.
FilePaths ==
    { Path(abs, dirs \o << f >>) :
        abs \in BOOLEAN, dirs \in {<< >>} \cup SeqsUpTo(DirSegs, MaxDirs), f \in FileSegs }

InitPath ==
    /\ Idle
    /\ input \in [filePath : FilePaths, output : {Undefined, Given(AutoOutput), Given(TypesDir)}]
    /\ result = NoValue

OutputPath ==
    /\ ~result.done
    /\ result' = Returned(getOutputPath(input.filePath,
                                        OrDefault(input.output, AutoOutput), Cwd))
    /\ UNCHANGED << input, sys >>

SpecPath ==
    InitPath /\ [][OutputPath]_vars

(***************************************************************************)
(* What the claims speak of                                                *)
(***************************************************************************)
\* Where the artifact of the stylesheet at absolute path a belongs under
\* the command's output option: beside the source, or under the output
\* directory at the source's place below the working directory.
ArtifactFor(a) ==
    LET out  == options.output
        rel  == SubSeq(a.segs, Len(Cwd.segs) + 1, Len(a.segs))
        name == [rel EXCEPT ![Len(rel)] = @ \o DtsSuffix]
    IN  IF ~out.def \/ out.val = AutoOutput
        THEN Path(TRUE, [a.segs EXCEPT ![Len(a.segs)] = @ \o DtsSuffix])
        ELSE Path(TRUE, Cwd.segs \o out.val.segs \o name)

\* The artifact text for a stylesheet's content under the command's options.
ExpectedText(text) ==
    generateTypeDefinition(SetOrder(Css(text).classes),
                           OrDefault(options.exportType, "default"),
                           OrDefault(options.nameFormat, "camelCase"))

\* The path of a stylesheet as discovery lists it under the command's pattern.
Listed(a) ==
    IF options.pattern.abs THEN a ELSE Path(FALSE, SubSeq(a.segs, Len(Cwd.segs) + 1, Len(a.segs)))

\* The pass over the stylesheet at a cannot succeed on the tree as it is.
PassFails(a) ==
    Css(fsSrc[Key(a)]).kind \in {"loadfail", "extractfail"} \/ denied[Key(a)] # "none"

AbsA ==
    PathResolve(Cwd, FileA)

AbsB ==
    PathResolve(Cwd, FileB)

\* The paths a generate() call has a per-file pipeline in flight for.
InFlight(c) ==
    IF c.by = "watch" THEN {Key(c.opts.pattern)}
    ELSE IF c.stage = "glob" THEN {}
    ELSE {Key(c.files[c.i])}

\* The step is the unlink handler's, for a module stylesheet.
UnlinkHandled ==
    /\ pc = "active"
    /\ queue # << >>
    /\ Head(queue).kind = "unlink"
    /\ moduleCssFilePattern(Head(queue).path)
    /\ queue' = Tail(queue) \/ pc' = "crashed"

UnlinkedSource ==
    PathResolve(Cwd, Head(queue).path)

C2_NoStaleOutput ==
    (pc = "active" /\ queue = << >> /\ calls = << >>) =>
        \A a \in AbsFiles :
            (Css(fsSrc[Key(a)]).kind = "ok" /\ \E g \in genLog : g.by = "watch" /\ g.file = a) =>
                /\ Key(ArtifactFor(a)) \in DOMAIN fsArt
                /\ fsArt[Key(ArtifactFor(a))] = ExpectedText(fsSrc[Key(a)])

(***************************************************************************)
(* C3. No two per-file pipelines are ever in flight for the same source    *)
(* path, in any interleaving of the handlers.                              *)
(***************************************************************************)
C3_OnePipelinePerPath ==
    \A i, j \in 1..Len(calls) :
        i < j => InFlight(calls[i]) \cap InFlight(calls[j]) = {}

(***************************************************************************)
(* C4. The unlink handler, for every output configuration, computes the    *)
(* path the pipeline wrote the source's artifact to and deletes the        *)
(* artifact there when it exists; it starts no pipeline.                   *)
(***************************************************************************)
C4_UnlinkDeletesArtifact ==
    [][ UnlinkHandled =>
          /\ pc' = "active"
          /\ calls' = calls
          /\ Key(ArtifactFor(UnlinkedSource)) \notin DOMAIN fsArt'
          /\ \A g \in genLog :
                Key(g.file) = Key(UnlinkedSource) => Key(g.out) \notin DOMAIN fsArt' ]_vars

(***************************************************************************)
(* C5. An unlink event for a module stylesheet whose artifact is already   *)
(* absent raises no error and changes nothing on the filesystem, for       *)
(* every output configuration.                                             *)
(***************************************************************************)
C5_UnlinkOfAbsentArtifactIsQuiet ==
    [][ (UnlinkHandled /\ Key(ArtifactFor(UnlinkedSource)) \notin DOMAIN fsArt) =>
          /\ pc' = "active"
          /\ fsArt' = fsArt
          /\ fsSrc' = fsSrc ]_vars

(***************************************************************************)
(* C6. A change or add event runs the single-file pipeline on the          *)
(* absolute form of the path, and what it writes replaces in full the      *)
(* artifact at the path the seeding pass used for that source, under       *)
(* 'auto' and under an explicit output directory.                          *)
(***************************************************************************)
C6_RegenerationKeepsPath ==
    /\ \A i \in 1..Len(calls) :
          calls[i].by = "watch" =>
              /\ PathIsAbsolute(calls[i].opts.pattern)
              /\ Key(calls[i].opts.pattern) \in SourceKeys
    /\ \A g \in genLog :
          /\ g.by = "watch" => PathIsAbsolute(g.file)
          /\ Key(g.out) = Key(ArtifactFor(PathResolve(Cwd, g.file)))
    /\ \A k \in DOMAIN fsArt :
          fsArt[k] \in { ExpectedText(t) : t \in {CssOne, CssTwo} }

\* Under an output directory, a source seeded by its relative path and
\* regenerated by its absolute one: one artifact, holding the new text.
C6_Witness ==
    \E g1, g2 \in genLog :
        /\ g1.by = "cli" /\ g2.by = "watch"
        /\ ~PathIsAbsolute(g1.file) /\ PathIsAbsolute(g2.file)
        /\ Key(g1.file) = Key(g2.file)
        /\ options.output = Given(TypesDir)
        /\ g1.css.text # g2.css.text
        /\ DOMAIN fsArt = {Key(g1.out)}
        /\ fsArt[Key(g1.out)] = ExpectedText(g2.css.text)

(***************************************************************************)
(* C7. Watch-mode start.  As claimed: the batch pass completes before the  *)
(* watcher is attached, and when observation begins every discovered       *)
(* source file has an artifact current with its content on disk.           *)
(***************************************************************************)
ObservationBegins ==
    pc = "dirs" /\ pc' = "active"

\* The files the seeding pass discovered: each was reported or written.
Discovered ==
    { Key(f) : f \in errLog } \cup { Key(g.file) : g \in genLog }

C8_SecondRunIdentical ==
    (pc = "exited" /\ runs >= 2) => fsArt = prevArt

C8_Witness ==
    /\ pc = "exited"
    /\ runs = 2
    /\ DOMAIN fsArt = {Key(ArtifactFor(AbsA)), Key(ArtifactFor(AbsB))}
    /\ options.exportType = Given("both")

(***************************************************************************)
(* C9. The artifact path is a function of the source path and the output   *)
(* mode: under 'auto' the source path with ".d.ts" appended; under an      *)
(* output directory, that directory joined with the source path relative   *)
(* to the working directory, with ".d.ts" appended.                        *)
(***************************************************************************)
IsPlainRelative(p) ==
    ~p.abs /\ \A i \in 1..Len(p.segs) : p.segs[i] \notin {DotSeg, DotDotSeg}

C9_OutputPath ==
    result.done =>
        LET f   == input.filePath
            out == input.output
        IN  /\ (~out.def \/ out = Given(AutoOutput)) =>
                  PathStr(result.val) = PathStr(f) \o ".d.ts"
            /\ out = Given(TypesDir) =>
                  /\ PathStr(result.val)
                        = PathStr(PathJoin(TypesDir, PathRelative(Cwd, Cwd, f))) \o ".d.ts"
                  /\ IsPlainRelative(f) =>
                        PathStr(result.val) = "types/" \o PathStr(f) \o ".d.ts"
                  /\ (f.abs /\ IsPrefix(Cwd.segs, f.segs)
                           /\ IsPlainRelative(Path(FALSE, Tail(f.segs)))) =>
                        PathStr(result.val)
                           = "types/" \o PathStr(Path(FALSE, Tail(f.segs))) \o ".d.ts"
            /\ (f = StylesTestCss /\ out = Given(AutoOutput)) =>
                  PathStr(result.val) = "styles/test.css.d.ts"
            /\ (f = StylesTestCss /\ out = Given(TypesDir)) =>
                  PathStr(result.val) = "types/styles/test.css.d.ts"

C9_Witness ==
    /\ result.done
    /\ input.filePath = PathResolve(Cwd, StylesTestCss)
    /\ input.output = Given(TypesDir)
    /\ PathStr(result.val) = "types/styles/test.css.d.ts"

(***************************************************************************)
(* C10. camelCase.  As claimed: the name is split on runs of "-" and "_"   *)
(* and the empty segments dropped; the first segment is lower-cased in     *)
(* full when it is all upper-case letters and digits, else in its first    *)
(* character; every later segment has its first character upper-cased and  *)
(* the rest lower-cased when it is all upper-case; the concatenation is    *)
(* emitted bare when it is a valid identifier and quoted otherwise.        *)
(***************************************************************************)
IsSeparator(c) ==
    c = "-" \/ c = "_"

\* The segments: the maximal runs of characters that are no separator.
SegmentStarts(name) ==
    { i \in 1..Len(name) :
        ~IsSeparator(name[i]) /\ (i = 1 \/ IsSeparator(name[i - 1])) }

SegmentEnd(name, i) ==
    CHOOSE j \in i..Len(name) :
        /\ \A k \in i..j : ~IsSeparator(name[k])
        /\ j = Len(name) \/ IsSeparator(name[j + 1])

RECURSIVE SegmentsFrom(_, _)
SegmentsFrom(name, starts) ==
    IF starts = {} THEN << >>
    ELSE LET i == CHOOSE x \in starts : \A y \in starts : x <= y
         IN  << SubSeq(name, i, SegmentEnd(name, i)) >>
             \o SegmentsFrom(name, starts \ {i})

Segments(name) ==
    SegmentsFrom(name, SegmentStarts(name))

AllUpperOrDigit(seg) ==
    \A i \in 1..Len(seg) : IsUpperChar(seg[i]) \/ IsDigitChar(seg[i])

ExpectedSegment(seg, i) ==
    IF i = 1
    THEN IF AllUpperOrDigit(seg) THEN toLowerCase(seg)
         ELSE << CharToLowerCase(seg[1]) >> \o Tail(seg)
    ELSE << CharToUpperCase(seg[1]) >>
         \o (IF AllUpperOrDigit(seg) THEN toLowerCase(Tail(seg)) ELSE Tail(seg))

RECURSIVE ExpectedConcat(_, _)
ExpectedConcat(segs, i) ==
    IF i > Len(segs) THEN << >>
    ELSE ExpectedSegment(segs[i], i) \o ExpectedConcat(segs, i + 1)

IsLetter(c) ==
    IsUpperChar(c) \/ IsLowerChar(c)

ValidIdentifier(s) ==
    /\ Len(s) >= 1
    /\ IsLetter(s[1]) \/ s[1] = "_" \/ s[1] = "$"
    /\ \A i \in 2..Len(s) : IsLetter(s[i]) \/ IsDigitChar(s[i]) \/ s[i] = "_" \/ s[i] = "$"

ExpectedCamel(name) ==
    LET camel == ExpectedConcat(Segments(name), 1)
    IN  IF ValidIdentifier(camel) THEN camel ELSE << "'" >> \o camel \o << "'" >>

C10_CamelCaseAsClaimed ==
    (result.done /\ input.nameFormat = "camelCase") =>
        result.val = ExpectedCamel(input.name)

\* The names the tests format.
Chars_button_primary ==
    << "b", "u", "t", "t", "o", "n", "-", "p", "r", "i", "m", "a", "r", "y" >>

Chars_buttonPrimary ==
    << "b", "u", "t", "t", "o", "n", "P", "r", "i", "m", "a", "r", "y" >>

C10_Examples ==
    /\ formatClassName(Chars_button_primary, "camelCase") = Chars_buttonPrimary
    /\ formatClassName(<< "b", "u", "t", "t", "o", "n", "_", "p", "r", "i", "m", "a", "r", "y" >>,
                       "camelCase") = Chars_buttonPrimary
    /\ formatClassName(<< "B", "U", "T", "T", "O", "N", "_", "P", "R", "I", "M", "A", "R", "Y" >>,
                       "camelCase") = Chars_buttonPrimary
    /\ formatClassName(<< "B", "u", "t", "t", "o", "n", "-", "P", "r", "i", "m", "a", "r", "y" >>,
                       "camelCase") = Chars_buttonPrimary
    /\ formatClassName(<< "n", "a", "v", "_", "I", "T", "E", "M" >>, "camelCase")
          = << "n", "a", "v", "I", "t", "e", "m" >>
    /\ formatClassName(<< "1", "2", "3", "-", "i", "n", "v", "a", "l", "i", "d" >>, "camelCase")
          = << "'", "1", "2", "3", "I", "n", "v", "a", "l", "i", "d", "'" >>
    /\ Str(formatClassName(<< "b", "u", "t", "t", "o", "n", "-", "-", "s", "t", "a", "t", "e",
                              "-", "s", "u", "c", "c", "e", "s", "s" >>, "camelCase"))
          = "buttonStateSuccess"

\* C10 as amended: a name with no segment (separators only) is returned
\* unchanged, bare; every other name is formatted as claimed.
C10_CamelCase ==
    /\ (result.done /\ input.nameFormat = "camelCase") =>
          result.val = IF Segments(input.name) = << >> THEN input.name
                       ELSE ExpectedCamel(input.name)
    /\ C10_Examples

\* A later segment that is all upper-case, after a first segment whose
\* digit makes the result a quoted key.
C10_Witness ==
    /\ result.done
    /\ input.nameFormat = "camelCase"
    /\ input.name = << "1", "_", "B", "B" >>
    /\ Str(result.val) = "'1Bb'"

(***************************************************************************)
(* C11. Under each of the three conventions the token formatClassName      *)
(* returns is declaration-safe: a valid bare identifier (a letter, "_" or  *)
(* "$", then letters, digits, "_" or "$"), or a quoted string literal.     *)
(***************************************************************************)
IsQuotedLiteral(s) ==
    /\ Len(s) >= 2
    /\ s[1] = "'"
    /\ s[Len(s)] = "'"
    /\ \A i \in 2..(Len(s) - 1) : s[i] # "'"

C11_DeclarationSafe ==
    result.done => (ValidIdentifier(result.val) \/ IsQuotedLiteral(result.val))

\* A name of separators alone has come back from camelCase as it went in.
C11_Witness ==
    /\ result.done
    /\ input.nameFormat = "camelCase"
    /\ input.name = << "_", "-" >>
    /\ result.val = << "_", "-" >>

(***************************************************************************)
(* generateTypeDefinition applied on its own, to the Set of the keys the   *)
(* scoping engine delivered                                                *)
(***************************************************************************)
MaxKeys == 3

\* a-b
ClassADashB ==
    << "a", "-", "b" >>

\* a_b
ClassAUnderB ==
    << "a", "_", "b" >>

\* 1
ClassOne ==
    << "1" >>

KeyNames ==
    { ClassTest, ClassButtonPrimary, ClassADashB, ClassAUnderB, ClassOne }

\* What the engine may deliver for a stylesheet: no key, or up to MaxKeys.
KeySeqs ==
    { << >> } \cup SeqsUpTo(KeyNames, MaxKeys)

InitRender ==
    /\ Idle
    /\ input \in [keys : KeySeqs, exportType : ExportTypes, nameFormat : NameFormats]
    /\ result = NoValue

Render ==
    /\ ~result.done
    /\ result' = Returned(generateTypeDefinition(SetOrder(input.keys),
                                                 input.exportType, input.nameFormat))
    /\ UNCHANGED << input, sys >>

SpecRender ==
    InitRender /\ [][Render]_vars

\* The tokens of the input's class names, in the order of the Set.
TokensOf(keys, nameFormat) ==
    LET classNames == SetOrder(keys)
    IN  [i \in 1..Len(classNames) |-> formatClassName(classNames[i], nameFormat)]

\* Every token some class name can be given.
AllTokens ==
    { formatClassName(n, f) : n \in KeyNames, f \in NameFormats }

\* The lines that declare an exported identifier.
MemberLine(token) ==
    "  readonly " \o Str(token) \o ": string;"

ConstLine(token) ==
    "export const " \o Str(token) \o ": string;"

DeclareConstLine(token) ==
    "export declare const " \o Str(token) \o ": string;"

DeclarationLines ==
    UNION { { MemberLine(t), ConstLine(t), DeclareConstLine(t) } : t \in AllTokens }

(***************************************************************************)
(* C12. For every class-name set, convention and export shape, the         *)
(* artifact declares each exported identifier at most once: no interface   *)
(* member and no standalone constant appears twice.                        *)
(***************************************************************************)
C12_EachIdentifierOnce ==
    result.done =>
        \A i, j \in DOMAIN result.val :
            (i # j /\ result.val[i] = result.val[j]) => result.val[i] \notin DeclarationLines

\* Two class names of one stylesheet that camelCase gives one token.
C12_Witness ==
    /\ result.done
    /\ input.keys = << ClassADashB, ClassAUnderB >>
    /\ input.nameFormat = "camelCase"
    /\ input.exportType = "default"
    /\ result.val[2] = "  readonly aB: string;"
    /\ result.val[3] = "  readonly aB: string;"

(***************************************************************************)
(* C13. For every class-name set and convention, the text rendered for     *)
(* 'both' begins with the complete text rendered for 'default' and then    *)
(* adds exactly one standalone exported string declaration per formatted   *)
(* name, in the order of the interface members.                            *)
(***************************************************************************)
NonEmptyLines(lines) ==
    SelectSeq(lines, LAMBDA l : l # "")

C13_BothExtendsDefault ==
    (result.done /\ input.exportType = "both") =>
        LET def  == generateTypeDefinition(SetOrder(input.keys), "default", input.nameFormat)
            both == result.val
            toks == TokensOf(input.keys, input.nameFormat)
            n    == Len(def)
        IN  \* the default text ends with a line break, and is a prefix
            /\ def[n] = ""
            /\ Len(both) >= n
            /\ SubSeq(both, 1, n - 1) = SubSeq(def, 1, n - 1)
            \* what follows it: a blank line, then the declarations, each a line
            /\ both[n] = ""
            /\ both[Len(both)] = ""
            /\ NonEmptyLines(SubSeq(both, n, Len(both)))
                  = [i \in 1..Len(toks) |-> ConstLine(toks[i])]
            \* in the order of the interface members
            /\ \A i \in 1..Len(toks) : both[1 + i] = MemberLine(toks[i])

\* The class names of the test, rendered for 'both'.
C13_Witness ==
    /\ result.done
    /\ input = [keys |-> << ClassTest, ClassButtonPrimary >>,
                exportType |-> "both", nameFormat |-> "camelCase"]
    /\ Len(result.val) = 13
    /\ result.val[3] = "  readonly buttonPrimary: string;"
    /\ result.val[9] = "export default classes;"
    /\ result.val[11] = "export const test: string;"
    /\ result.val[12] = "export const buttonPrimary: string;"

(***************************************************************************)
(* C14. Export-shape containment.  As claimed: the text rendered for       *)
(* 'both' contains every standalone declaration that the 'named' rendering *)
(* contains for the same names.                                            *)
(***************************************************************************)
NamedRendering ==
    generateTypeDefinition(SetOrder(input.keys), "named", input.nameFormat)

C14_BothContainsNamedText ==
    (result.done /\ input.exportType = "both") =>
        \A i \in DOMAIN NamedRendering :
            NamedRendering[i] \in DeclarationLines =>
                NamedRendering[i] \in Range(result.val)

\* C14 as amended: for every standalone declaration "export declare const
\* X: string;" of the 'named' rendering, the 'both' rendering holds the
\* declaration of the same name without the declare modifier, "export
\* const X: string;", and the 'named' rendering has one for each token.
C14_BothDeclaresNamedConstants ==
    (result.done /\ input.exportType = "both") =>
        /\ \A t \in AllTokens :
              DeclareConstLine(t) \in Range(NamedRendering) =>
                  ConstLine(t) \in Range(result.val)
        /\ \A t \in Range(TokensOf(input.keys, input.nameFormat)) :
              DeclareConstLine(t) \in Range(NamedRendering)

C14_Witness ==
    /\ result.done
    /\ input = [keys |-> << ClassButtonPrimary >>,
                exportType |-> "both", nameFormat |-> "camelCase"]
    /\ NamedRendering = << "export declare const buttonPrimary: string;" >>
    /\ "export const buttonPrimary: string;" \in Range(result.val)
    /\ "export declare const buttonPrimary: string;" \notin Range(result.val)

(***************************************************************************)
(* C15. For an empty class-name set the 'default' and 'both' renderings    *)
(* hold the fallback member "readonly [key: string]: string;" as the only  *)
(* interface member; for a non-empty set, exactly one read-only string     *)
(* member per class name and no fallback; the body is never empty.         *)
(***************************************************************************)
FallbackLine ==
    "  readonly [key: string]: string;"

\* The lines between the interface's opening line and its closing brace.
InterfaceBody(text) ==
    LET close == CHOOSE k \in DOMAIN text :
                     text[k] = "}" /\ \A j \in 1..(k - 1) : text[j] # "}"
    IN  SubSeq(text, 2, close - 1)

C15_InterfaceMembers ==
    (result.done /\ input.exportType \in {"default", "both"}) =>
        LET body == InterfaceBody(result.val)
            toks == TokensOf(input.keys, input.nameFormat)
        IN  /\ result.val[1] = "export interface CssModuleClasses {"
            /\ "}" \in Range(result.val)
            /\ body # << >>
            /\ \A i \in DOMAIN body : body[i] # ""
            /\ input.keys = << >> => body = << FallbackLine >>
            /\ input.keys # << >> =>
                  /\ Len(body) = Cardinality(Range(input.keys))
                  /\ body = [i \in 1..Len(toks) |-> MemberLine(toks[i])]
                  /\ FallbackLine \notin Range(body)

C15_Witness ==
    /\ result.done
    /\ input.keys = << >>
    /\ input.exportType = "both"
    /\ result.val[2] = FallbackLine
    /\ result.val[3] = "}"
    /\ Len(result.val) = 11

(***************************************************************************)
(* A generator's lifetime: constructed from the options given, then its    *)
(* methods read the resolved options                                       *)
(***************************************************************************)
\* The options a caller may give: each optional field given or left out,
\* the falsy values the field's type admits included.
GivenOptions ==
    [ pattern    : {TreePattern},
      output     : {Undefined, Given(EmptyOutput), Given(AutoOutput), Given(TypesDir)},
      watch      : {Undefined, Given(FALSE), Given(TRUE)},
      exportType : {Undefined} \cup {Given(e) : e \in ExportTypes},
      nameFormat : {Undefined} \cup {Given(n) : n \in NameFormats},
      debug      : {Undefined, Given(FALSE), Given(TRUE)} ]

\* The methods, by the field of this.options each reads.
OptionReaders ==
    { "generate", "generateTypeDefinition", "formatClassName", "getOutputPath" }

InitConstruct ==
    /\ Idle
    /\ input \in GivenOptions
    /\ result = NoValue

\* new CssModulesTypesGenerator(options)
Construct ==
    /\ ~result.done
    /\ result' = Returned([options |-> Constructor(input), ran |-> {}])
    /\ UNCHANGED << input, sys >>

\* A method of the generator runs: it reads this.options and assigns no
\* field of it.
RunMethod(m) ==
    /\ result.done
    /\ m \notin result.val.ran
    /\ result' = Returned([options |-> result.val.options, ran |-> result.val.ran \cup {m}])
    /\ UNCHANGED << input, sys >>

NextConstruct ==
    \/ Construct
    \/ \E m \in OptionReaders : RunMethod(m)

SpecConstruct ==
    InitConstruct /\ [][NextConstruct]_vars

(***************************************************************************)
(* C16. Configuration.  As claimed: after construction every field has a   *)
(* concrete value, an omitted field its default (output 'auto', watch      *)
(* false, exportType 'default', nameFormat 'camelCase', debug false) and   *)
(* every provided value kept as given; the resolved configuration never    *)
(* changes during the generator's lifetime.                                *)
(***************************************************************************)
GivenOr(opt, dflt) ==
    IF opt.def THEN opt.val ELSE dflt

C16_EveryGivenValueKept ==
    result.done =>
        result.val.options =
            [ pattern    |-> input.pattern,
              output     |-> GivenOr(input.output, Path(FALSE, << << "a", "u", "t", "o" >> >>)),
              watch      |-> GivenOr(input.watch, FALSE),
              exportType |-> GivenOr(input.exportType, "default"),
              nameFormat |-> GivenOr(input.nameFormat, "camelCase"),
              debug      |-> GivenOr(input.debug, FALSE) ]

\* C16 as amended: as claimed, but an output given as the empty string is
\* taken as omitted and resolved to 'auto'.  At every moment of the
\* generator's lifetime the configuration is the one so resolved.
C16_Configuration ==
    result.done =>
        result.val.options =
            [ pattern    |-> input.pattern,
              output     |-> IF input.output.def /\ input.output.val # Path(FALSE, << >>)
                             THEN input.output.val
                             ELSE Path(FALSE, << << "a", "u", "t", "o" >> >>),
              watch      |-> GivenOr(input.watch, FALSE),
              exportType |-> GivenOr(input.exportType, "default"),
              nameFormat |-> GivenOr(input.nameFormat, "camelCase"),
              debug      |-> GivenOr(input.debug, FALSE) ]

\* A generator given nothing but a pattern and an empty output, after all
\* its methods have run.
C16_Witness ==
    /\ result.done
    /\ result.val.ran = OptionReaders
    /\ input.output = Given(EmptyOutput)
    /\ ~input.watch.def /\ ~input.exportType.def /\ ~input.nameFormat.def /\ ~input.debug.def
    /\ result.val.options.output = AutoOutput
    /\ result.val.options.exportType = "default"
    /\ result.val.options.nameFormat = "camelCase"
    /\ result.val.options.watch = FALSE
    /\ result.val.options.debug = FALSE

(***************************************************************************)
(* C17. processSingleFile(path, options) runs the per-file pipeline        *)
(* exactly once and on exactly the given path: when its generator's        *)
(* discovery answers, the files to process are the given path and no       *)
(* other, never none.                                                      *)
(***************************************************************************)
\* Call k was made by processSingleFile and its discovery answers now.
SingleFileDiscovered(k) ==
    /\ calls[k].by = "watch"
    /\ GlobDone(k)

C17_SingleFileRunsOnGivenPath ==
    [][ \A k \in 1..Len(calls) :
          SingleFileDiscovered(k) =>
              /\ Len(calls') = Len(calls)
              /\ calls'[k].files = << calls[k].opts.pattern >>
              /\ calls'[k].stage = "load" ]_vars

(***************************************************************************)
(* Two runs of the command side by side, over one file tree and one        *)
(* sequence of events, one of them with --debug.  Each handler runs to its *)
(* end before the next event is delivered.                                 *)
(***************************************************************************)
MaxEvents == 2

\* A run: the tree, the artifacts, the filesystem's refusals, what went to
\* console.error (errors) and to console.info / console.log (info), the
\* artifacts written and deleted so far, and where the process stands.
\* The directory a path names and every directory above it, as files on disk.
DirKeys(dir) ==
    LET a == PathResolve(Cwd, dir)
    IN  { PathStr(Path(TRUE, SubSeq(a.segs, 1, n))) : n \in 0..Len(a.segs) }

\* The directories that hold the stylesheets of a tree.
SourceDirs(tree) ==
    UNION { DirKeys(PathDirname(f)) : f \in { g \in Range(TreeFiles) : Key(g) \in DOMAIN tree } }

\* fs.mkdirSync(dir, { recursive: true })
mkdirSync(dirs, dir) ==
    dirs \cup DirKeys(dir)

\* (dirs: the directories on disk; loads: the files loaded so far, each
\* with the loader that was used.)
FreshRun(tree, denials) ==
    [ src |-> tree, art |-> << >>, denied |-> denials, errors |-> {}, info |-> << >>,
      written |-> {}, deleted |-> {}, status |-> "start",
      dirs |-> SourceDirs(tree), loads |-> {} ]

\* console.info(line) / console.log(line)
Log(run, line) ==
    [run EXCEPT !.info = Append(@, line)]

\* A debug trace that ends the process.
DebugAbort(run, debug, line) ==
    IF debug THEN [run EXCEPT !.status = "crashed"] ELSE run

\* if (debug) console.info(line)
DebugLog(run, debug, line) ==
    IF debug THEN Log(run, line) ELSE run

\* processFile without its try/catch: an error ends the process.
processFileUncaught(run, opts, filePath) ==
    LET loaded     == LoadCss(filePath, run.src)
        text       == generateTypeDefinition(ExtractClassNames(loaded.css),
                                             opts.exportType, opts.nameFormat)
        outputPath == getOutputPath(filePath, opts.output, Cwd)
        threw      == \/ ~loaded.ok
                      \/ Css(loaded.css.text).kind = "extractfail"
                      \/ run.denied[Key(filePath)] \in {"mkdir", "write"}
    IN  IF run.status = "crashed" THEN run
        ELSE IF threw THEN [run EXCEPT !.status = "crashed"]
        ELSE Log([run EXCEPT !.art = writeFileSync(@, Key(outputPath), text),
                             !.written = @ \cup {<< Key(outputPath), text >>}],
                 "Generated types")

\* processFile writing the artifact without making its directory first.
processFileWithoutMkdir(run, opts, filePath) ==
    LET loaded     == LoadCss(filePath, run.src)
        r2         == [run EXCEPT !.loads = @ \cup {<< Key(filePath), loaded.css.via >>}]
        text       == generateTypeDefinition(ExtractClassNames(loaded.css),
                                             opts.exportType, opts.nameFormat)
        outputPath == getOutputPath(filePath, opts.output, Cwd)
        threw      == \/ ~loaded.ok
                      \/ Css(loaded.css.text).kind = "extractfail"
                      \/ run.denied[Key(filePath)] = "write"
                      \/ Key(PathDirname(outputPath)) \notin r2.dirs
    IN  IF threw
        THEN [r2 EXCEPT !.errors = @ \cup {Key(filePath)}]
        ELSE Log([r2 EXCEPT !.art = writeFileSync(@, Key(outputPath), text),
                            !.written = @ \cup {<< Key(outputPath), text >>}],
                 "Generated types")

\* processFile(filePath), run to its end.  The steps in the source's order:
\* load, extraction, rendering, mkdirSync, writeFileSync; the first that
\* throws ends the pass in the catch.
processFile(run, opts, filePath) ==
    LET r1         == DebugLog(run, opts.debug, "Processing file")
        loaded     == LoadCss(filePath, run.src)
        r2         == [DebugLog(r1, opts.debug,
                                IF loaded.css.via = "sass" THEN "Compiling SCSS file"
                                ELSE "Reading CSS file")
                         EXCEPT !.loads = @ \cup {<< Key(filePath), loaded.css.via >>}]
        classNames == ExtractClassNames(loaded.css)
        text       == generateTypeDefinition(classNames, opts.exportType, opts.nameFormat)
        outputPath == getOutputPath(filePath, opts.output, Cwd)
        outputDir  == PathDirname(outputPath)
        threwEarly == \/ ~loaded.ok
                      \/ Css(loaded.css.text).kind = "extractfail"
        r3         == [r2 EXCEPT !.dirs = mkdirSync(@, outputDir)]
    IN  IF threwEarly \/ run.denied[Key(filePath)] = "mkdir"
        THEN [r2 EXCEPT !.errors = @ \cup {Key(filePath)}]
        ELSE IF run.denied[Key(filePath)] = "write" \/ Key(outputDir) \notin r3.dirs
        THEN [r3 EXCEPT !.errors = @ \cup {Key(filePath)}]
        ELSE Log([r3 EXCEPT !.art = writeFileSync(@, Key(outputPath), text),
                            !.written = @ \cup {<< Key(outputPath), text >>}],
                 "Generated types")

\* for (const file of files) await this.processFile(file), from files[i].
RECURSIVE processFiles(_, _, _, _)
processFiles(run, opts, files, i) ==
    IF i > Len(files) THEN run
    ELSE processFiles(processFile(run, opts, files[i]), opts, files, i + 1)

\* for (const file of files) console.info(`- ${file}`)
RECURSIVE LogEach(_, _, _)
LogEach(run, debug, n) ==
    IF n = 0 THEN run ELSE LogEach(DebugLog(run, debug, "- file"), debug, n - 1)

\* generate(), run to its end.
generate(run, opts) ==
    LET r1    == DebugLog(run, opts.debug, "Using glob pattern")
        files == glob(opts.pattern, run.src)
        r2    == LogEach(DebugLog(r1, opts.debug, "Found matching files"),
                         opts.debug, Len(files))
    IN  processFiles(r2, opts, files, 1)

generateCssModuleTypes(run, o) ==
    generate(run, Constructor(o))

\* processSingleFile(filePath, options), run to its end.
processSingleFileRun(run, filePath, opts) ==
    generate(Log(run, "Processing single file"),
             Constructor([ pattern |-> filePath, output |-> opts.output,
                           watch |-> opts.watch, exportType |-> opts.exportType,
                           nameFormat |-> opts.nameFormat, debug |-> opts.debug ]))

\* The command's action up to the registration of the handlers, the
\* watcher's 'ready' included; or the one-off generation.
actionRun(run, o) ==
    LET debug == OrDefault(o.debug, FALSE)
    IN  IF OrDefault(o.watch, FALSE)
        THEN LET r1   == Log(Log(Log(run, "Watching for changes"),
                                 "Current working directory"), "Watch pattern")
                 r2   == generateCssModuleTypes(r1, o)
                 dirs == getDirectoriesToWatch(glob(o.pattern, r2.src), projectDir(o.pattern))
                 r3   == DebugLog(r2, debug, "Found files in initial glob matching")
                 r4   == LogEach(DebugLog(r3, debug, "Will watch directories"),
                                 debug, Cardinality(dirs))
                 r5   == Log(r4, "Watcher is ready")
                 r6   == DebugLog(DebugLog(r5, debug, "Using pattern for watching"),
                                  debug, "Debug mode enabled")
             IN  [r6 EXCEPT !.status = "active"]
        ELSE [generateCssModuleTypes(run, o) EXCEPT !.status = "exited"]

\* The change and add handlers, run to their end.
onChangeOrAdd(run, o, filePath) ==
    LET debug == OrDefault(o.debug, FALSE)
    IN  IF ~moduleCssFilePattern(filePath)
        THEN DebugLog(run, debug, "Ignoring non-module CSS/SCSS file")
        ELSE LET r1 == DebugLog(DebugLog(run, debug, "Raw event path"),
                                debug, "File exists check")
                 r2 == DebugLog(DebugLog(r1, debug, "Resolved absolute path"),
                                debug, "Absolute path exists check")
                 r3 == Log(r2, "File changed or added")
             IN  processSingleFileRun(r3, absoluteFilePath(filePath), otherOptions(o))

\* The unlink handler, run to its end.
onUnlink(run, o, filePath) ==
    LET debug == OrDefault(o.debug, FALSE)
    IN  IF ~moduleCssFilePattern(filePath)
        THEN DebugLog(run, debug, "Ignoring non-module CSS/SCSS file deletion")
        ELSE LET t == typesFilePath(o.output, absoluteFilePath(filePath))
                 a == Key(t.path)
             IN  IF t.threw THEN [run EXCEPT !.status = "crashed"]
                 ELSE IF existsSync(run.art, a)
                      THEN Log([run EXCEPT !.art = unlinkSync(@, a),
                                           !.deleted = @ \cup {a}],
                               "File removed, deleted types file")
                      ELSE run

\* What happens to the tree: a stylesheet is written or removed.
TreeEdits ==
    [ file : Range(SourceFiles), content : {CssTwo, CssUnreadable, CssInvalid, Absent} ]

\* The edit is made and, in an active watch session, the watcher's event
\* for it is handled.
handleEdit(run, o, e) ==
    LET was    == run.src[Key(e.file)]
        edited == [run EXCEPT !.src[Key(e.file)] = e.content]
    IN  IF was = e.content \/ run.status # "active" THEN edited
        ELSE IF e.content = Absent THEN onUnlink(edited, o, e.file)
        ELSE onChangeOrAdd(edited, o, e.file)

\* What the filesystem refuses during the session: nothing, the writing of
\* one source's artifact, or the making of the other's directory.
WatchDenials ==
    { [a \in SourceKeys |-> "none"],
      [a \in SourceKeys |-> IF a = Key(FileA) THEN "write" ELSE "none"],
      [a \in SourceKeys |-> IF a = Key(FileB) THEN "mkdir" ELSE "none"] }

WithDebug(o, debug) ==
    [o EXCEPT !.debug = debug]

InitDebug ==
    /\ Idle
    /\ input \in [ options : { o \in CliOptions(Given(TRUE)) \cup CliOptions(Undefined) :
                                 ~o.pattern.abs /\ o.exportType = Given("default") },
                   quiet   : {Undefined, Given(FALSE)},
                   tree    : { t \in [SourceKeys -> {CssOne, CssInvalid}] :
                                 t[Key(FileB)] = CssOne },
                   denials : WatchDenials,
                   events  : { << >> } \cup SeqsUpTo(TreeEdits, MaxEvents) ]
    /\ result = NoValue

\* Both runs are started.
TwinStart ==
    /\ ~result.done
    /\ LET fresh == FreshRun(input.tree, input.denials)
       IN  result' = Returned(
               [ plain    |-> actionRun(fresh, WithDebug(input.options, input.quiet)),
                 debugged |-> actionRun(fresh, WithDebug(input.options, Given(TRUE))),
                 next     |-> 1 ])
    /\ UNCHANGED << input, sys >>

\* The next event comes to both runs.
TwinEvent ==
    /\ result.done
    /\ result.val.next <= Len(input.events)
    /\ LET e == input.events[result.val.next]
       IN  result' = Returned(
               [ plain    |-> handleEdit(result.val.plain,
                                         WithDebug(input.options, input.quiet), e),
                 debugged |-> handleEdit(result.val.debugged,
                                         WithDebug(input.options, Given(TRUE)), e),
                 next     |-> result.val.next + 1 ])
    /\ UNCHANGED << input, sys >>

NextDebug ==
    \/ TwinStart
    \/ TwinEvent

SpecDebug ==
    InitDebug /\ [][NextDebug]_vars

(***************************************************************************)
(* C18. Two runs over the same tree and the same events that differ only   *)
(* in the debug flag write the same artifacts (paths and text), delete the *)
(* same artifacts, and end the same errors isolated or fatal: debug        *)
(* changes only what is logged.                                            *)
(***************************************************************************)
Effects(run) ==
    [ art |-> run.art, written |-> run.written, deleted |-> run.deleted,
      isolated |-> run.errors, status |-> run.status ]

C18_DebugChangesOnlyTheLog ==
    result.done => Effects(result.val.plain) = Effects(result.val.debugged)

\* Both runs have written, deleted and reported an error, and the debug
\* run has logged more.
C18_Witness ==
    /\ result.done
    /\ result.val.next > Len(input.events)
    /\ result.val.plain.status = "active"
    /\ result.val.plain.written # {}
    /\ result.val.plain.deleted # {}
    /\ result.val.plain.errors # {}
    /\ Len(result.val.debugged.info) > Len(result.val.plain.info)

(***************************************************************************)
(* C19. A failure raised while a change or add event is handled, at any    *)
(* step of the single-file processing, is caught at the file boundary and  *)
(* reported; it does not leave the handler: the session stays active and   *)
(* later events are handled.                                               *)
(***************************************************************************)
\* The event the two runs handle in this step.
EventNow ==
    input.events[result.val.next]

\* The step delivers a change or add event to the active run r.
RegenerationHandled(r) ==
    /\ result.done
    /\ result'.val.next = result.val.next + 1
    /\ r.status = "active"
    /\ EventNow.content # Absent
    /\ r.src[Key(EventNow.file)] # EventNow.content

\* The single-file processing of the event fails: the stylesheet cannot be
\* loaded or scoped, or the artifact's directory or file cannot be written.
ProcessingFails(r) ==
    \/ EventNow.content \in {CssUnreadable, CssInvalid}
    \/ r.denied[Key(EventNow.file)] # "none"

\* The artifact text of a stylesheet content under the options of the runs.
RenderingOf(content) ==
    generateTypeDefinition(SetOrder(Css(content).classes),
                           OrDefault(input.options.exportType, "default"),
                           OrDefault(input.options.nameFormat, "camelCase"))

UnlinkAlreadyHandled(k) ==
    LET a == calls[k].opts.pattern
    IN  /\ fsSrc[Key(a)] = Absent
        /\ \A i \in 1..Len(queue) : Key(queue[i].path) # Key(a)

\* The regeneration in call k writes its artifact in this step.
RegenerationWrites(k) ==
    /\ calls[k].by = "watch"
    /\ ExtractDone(k)
    /\ Emit(calls[k]).outcome = "written"

C20_EffectsInDeliveryOrder ==
    [][ \A k \in 1..Len(calls) :
          RegenerationWrites(k) => ~UnlinkAlreadyHandled(k) ]_vars

\* Both events have been handled, the source is gone, and the artifact the
\* change's regeneration wrote after the unlink is on disk.
C20_Witness ==
    /\ pc = "active"
    /\ queue = << >>
    /\ calls = << >>
    /\ options.output = Given(AutoOutput)
    /\ fsSrc[Key(FileA)] = Absent
    /\ \E g \in genLog :
          /\ g.by = "watch"
          /\ Key(g.file) = Key(FileA)
          /\ g.css.text = CssTwo
          /\ Key(g.out) \in DOMAIN fsArt
          /\ fsArt[Key(g.out)] = ExpectedText(CssTwo)

(***************************************************************************)
(* A watch session over a tree that holds more than lower-case module      *)
(* stylesheets.  The command starts in watch mode; then the tree is edited *)
(* and the watcher's event for each edit, when there is one, is handled to *)
(* its end before the next edit.                                           *)
(***************************************************************************)
SessionKeys ==
    { Key(f) : f \in Range(TreeFiles) }

SessionOptions ==
    [ pattern    : {TreePattern, PathResolve(Cwd, TreePattern), StylesPattern},
      output     : {Undefined, Given(AutoOutput), Given(TypesDir)},
      watch      : {Given(TRUE)},
      exportType : {Given("default")},
      nameFormat : {Given("camelCase")},
      debug      : {Undefined} ]

\* The trees a session starts over.
SessionTrees ==
    { t \in [SessionKeys -> {CssOne, Absent}] :
        /\ t[Key(FilePlain)] = CssOne
        /\ t[Key(FileUpper)] = Absent }

SessionEdits ==
    [ file : Range(TreeFiles), content : {CssTwo, Absent} ]

NoEvent ==
    [ kind |-> "none" ]

\* The event the watcher has for an edit: its kind; its path, in the form
\* of the observed directories; and whether it is delivered, which it is
\* for a path under an observed directory that no ignore rule excludes.
eventFor(o, dirs, was, e) ==
    LET p == IF o.pattern.abs THEN PathResolve(Cwd, e.file) ELSE e.file
    IN  [ kind      |-> IF e.content = Absent THEN "unlink"
                        ELSE IF was = Absent THEN "add" ELSE "change",
          path      |-> p,
          delivered |-> ObservedBy(dirs, p) /\ ~Ignored(p) ]

\* The handler registered for the event's kind, run to its end.
dispatch(run, o, ev) ==
    IF ~ev.delivered THEN run
    ELSE IF ev.kind = "unlink" THEN onUnlink(run, o, ev.path)
    ELSE onChangeOrAdd(run, o, ev.path)

InitSession ==
    /\ Idle
    /\ input \in [ options : SessionOptions, tree : SessionTrees ]
    /\ result = NoValue

\* The action runs up to the ready watcher: the seeding pass, then the
\* directories to watch from a discovery of its own.
SessionStart ==
    /\ ~result.done
    /\ LET run == actionRun(FreshRun(input.tree, [k \in SessionKeys |-> "none"]),
                            input.options)
       IN  result' = Returned(
               [ run  |-> run,
                 dirs |-> getDirectoriesToWatch(glob(input.options.pattern, run.src),
                                                projectDir(input.options.pattern)),
                 last |-> NoEvent,
                 n    |-> 0 ])
    /\ UNCHANGED << input, sys >>

\* The tree is edited and the watcher's event for the edit is handled.
SessionEdit(e) ==
    /\ result.done
    /\ result.val.n < MaxEvents
    /\ result.val.run.status = "active"
    /\ result.val.run.src[Key(e.file)] # e.content
    /\ LET run    == result.val.run
           ev     == eventFor(input.options, result.val.dirs, run.src[Key(e.file)], e)
           edited == [run EXCEPT !.src[Key(e.file)] = e.content]
       IN  result' = Returned(
               [ run  |-> dispatch(edited, input.options, ev),
                 dirs |-> result.val.dirs,
                 last |-> ev,
                 n    |-> result.val.n + 1 ])
    /\ UNCHANGED << input, sys >>

NextSession ==
    \/ SessionStart
    \/ \E e \in SessionEdits : SessionEdit(e)

SpecSession ==
    InitSession /\ [][NextSession]_vars

(***************************************************************************)
(* C21. While the watch session is active, a change, add or unlink event   *)
(* whose path does not end in '.module.css', '.module.scss' or             *)
(* '.module.sass' causes no pipeline run, no artifact write and no         *)
(* artifact deletion.                                                      *)
(***************************************************************************)
\* The step handles an event that was delivered to its handler.
EventHandled ==
    /\ result.done
    /\ result'.val.n = result.val.n + 1
    /\ result'.val.last.delivered

\* What a handler can do to the filesystem and with the pipeline.
HandlerEffects(run) ==
    [ art |-> run.art, dirs |-> run.dirs, written |-> run.written,
      deleted |-> run.deleted, loads |-> run.loads, errors |-> run.errors,
      status |-> run.status ]

\* As claimed: the suffixes compared as they are written.
C21_OtherSuffixIgnored ==
    [][ ( /\ EventHandled
          /\ \A sfx \in ModuleSuffixes : ~EndsWith(PathChars(result'.val.last.path), sfx) )
        => HandlerEffects(result'.val.run) = HandlerEffects(result.val.run) ]_vars

\* C21 as amended: the suffixes compared without regard to case.
C21_NonModuleEventIgnored ==
    [][ ( /\ EventHandled
          /\ \A sfx \in ModuleSuffixes :
                ~EndsWith(toLowerCase(PathChars(result'.val.last.path)), sfx) )
        => HandlerEffects(result'.val.run) = HandlerEffects(result.val.run) ]_vars

\* An unlink event for src/plain.css has been delivered and handled: the
\* handler deleted nothing, and the artifact the seeding pass wrote for the
\* file is where that pass put it.
C21_Witness ==
    /\ result.done
    /\ result.val.n = 2
    /\ result.val.last.delivered
    /\ result.val.last.kind = "unlink"
    /\ result.val.last.path = FilePlain
    /\ input.options.pattern = StylesPattern
    /\ input.options.output = Given(AutoOutput)
    /\ result.val.run.status = "active"
    /\ result.val.run.src[Key(FilePlain)] = Absent
    /\ "/p/src/plain.css.d.ts" \in DOMAIN result.val.run.art
    /\ result.val.run.deleted = {}

(***************************************************************************)
(* A watch session in which the event loop does not stall: a handler whose *)
(* event waits is called, and a pipeline whose await has resolved goes on. *)
(* The user's edits come when they come, MaxEdits of them at most.         *)
(***************************************************************************)
InitLive ==
    /\ InitWith({ o \in CliOptions(Given(TRUE)) :
                    /\ o.output \in {Given(AutoOutput), Given(TypesDir)}
                    /\ o.exportType = Given("default") },
                {[a \in SourceKeys |-> CssOne]},
                {[a \in SourceKeys |-> "none"]})
    /\ input = NoValue
    /\ result = NoValue

\* The steps of the program itself.
ProgramStep ==
    \/ Start
    \/ \E k \in 1..Len(calls) : GlobDone(k)
    \/ \E k \in 1..Len(calls) : LoadFile(k)
    \/ \E k \in 1..Len(calls) : ExtractDone(k)
    \/ DirsGlobDone
    \/ OnChange
    \/ OnAdd
    \/ OnUnlink

\* ENABLED <<ProgramStep>>_vars, from the guards of the steps: the action
\* can start, a pipeline is in flight (each stage has its step), the
\* directories are awaited, or an event waits in an active session (a
\* handler that finds MaxCalls pipelines in flight waits for one of them).
ProgramStepEnabled ==
    \/ pc \in {"start", "dirs"}
    \/ calls # << >>
    \/ pc = "active" /\ queue # << >>

\* WF_vars(ProgramStep), with its ENABLED written out.
ProgramFairness ==
    []<>(~ProgramStepEnabled) \/ []<><<ProgramStep>>_vars

SpecLive ==
    InitLive /\ [][Next]_vars /\ ProgramFairness

(***************************************************************************)
(* C22. The tool's own artifact writes never feed back into the watch      *)
(* loop: no event for a path ending in '.d.ts' is ever reported or starts  *)
(* a pipeline run or a deletion, so after the last source event the        *)
(* session performs finitely many writes and then becomes quiescent: the   *)
(* watcher active, no event waiting, no pipeline in flight.                *)
(***************************************************************************)
IsDeclarationFile(p) ==
    EndsWith(PathChars(p), DtsSuffix)

NoArtifactEvent ==
    /\ \A i \in 1..Len(queue) : ~IsDeclarationFile(queue[i].path)
    /\ \A i \in 1..Len(calls) : ~IsDeclarationFile(calls[i].opts.pattern)

Quiescent ==
    pc = "active" /\ queue = << >> /\ calls = << >>

C22_NoFeedback ==
    /\ [] NoArtifactEvent
    /\ <>[] Quiescent

\* A quiescent session after a regeneration: the pipeline a change event
\* started wrote the artifact, under a directory the watcher observes.
C22_Witness ==
    /\ Quiescent
    /\ edits = MaxEdits
    /\ \E g \in genLog :
          /\ g.by = "watch"
          /\ Key(g.out) \in DOMAIN fsArt
          /\ Watched(EventPath(PathResolve(Cwd, g.out)))
          /\ fsArt[Key(g.out)] = ExpectedText(CssTwo)

(***************************************************************************)
(* C23. The initial watch directory set equals the directory of every      *)
(* discovered file (always included) plus every ancestor directory of it   *)
(* that passes the project-scope filter, where the filter is a substring   *)
(* match on the pattern's first path segment; the ancestor walk stops at   *)
(* '.' or '/'.                                                             *)
(***************************************************************************)
\* The directories above a directory, up to '.' or '/'.
Ancestors(dir) ==
    { Path(dir.abs, SubSeq(dir.segs, 1, n)) : n \in 0..(Len(dir.segs) - 1) }

FirstPathSegment(pattern) ==
    pattern.segs[1]

\* The files the session's pattern selects in the tree it starts over.
SessionDiscovered ==
    Range(glob(input.options.pattern, input.tree))

C23_WatchDirectories ==
    result.done =>
        result.val.dirs =
            { PathDirname(f) : f \in SessionDiscovered }
            \cup { d \in UNION { Ancestors(PathDirname(f)) : f \in SessionDiscovered } :
                     Includes(PathChars(d), FirstPathSegment(input.options.pattern)) }

(***************************************************************************)
(* C24. The watcher's ignore rules exclude a path only when it lies in a   *)
(* dependency, build or output directory (node_modules, dist, build,       *)
(* output, out) or is a generated '.d.ts' file: the event for a module     *)
(* stylesheet under an observed directory and outside such directories is  *)
(* delivered.                                                              *)
(***************************************************************************)
\* One of the directories on the path has one of the five names.
InBuildDirectory(p) ==
    \E i \in 1..(Len(p.segs) - 1) : p.segs[i] \in IgnoredWords

C24_ModuleStylesheetsObserved ==
    ( /\ result.done
      /\ result.val.last.kind # "none"
      /\ moduleCssFilePattern(result.val.last.path)
      /\ ObservedBy(result.val.dirs, result.val.last.path)
      /\ ~InBuildDirectory(result.val.last.path) )
    => result.val.last.delivered

(***************************************************************************)
(* C25. For every path the pipeline processes whose extension denotes a    *)
(* preprocessor dialect (.scss or .sass), including every such path        *)
(* accepted by the watch relevance filter, the loader obtains the CSS text *)
(* from the compiler; for every other path it reads the file verbatim;     *)
(* each pass loads again from disk: what a regeneration writes is derived  *)
(* from the content the edit left.                                         *)
(***************************************************************************)
\* The extension is .scss or .sass, as written or as the relevance filter
\* reads it (without regard to case).
PreprocessorDialect(f) ==
    \/ PathExtname(f) \in {ScssExt, SassExt}
    \/ /\ moduleCssFilePattern(f)
       /\ toLowerCase(PathExtname(f)) \in {ScssExt, SassExt}

\* The step's event started a pipeline run.
LastRegenerated ==
    /\ result.val.last.kind \in {"add", "change"}
    /\ result.val.last.delivered
    /\ moduleCssFilePattern(result.val.last.path)

C25_LoaderByDialect ==
    result.done =>
        /\ \A f \in Range(TreeFiles) :
              \A l \in result.val.run.loads :
                  l[1] = Key(f) =>
                      l[2] = IF PreprocessorDialect(f) THEN "sass" ELSE "read"
        /\ LastRegenerated =>
              \E w \in result.val.run.written :
                  /\ w[2] = RenderingOf(CssTwo)
                  /\ w[1] \in DOMAIN result.val.run.art
                  /\ result.val.run.art[w[1]] = w[2]

(***************************************************************************)
(* processFile applied on its own: one pass over one file                  *)
(***************************************************************************)
\* An artifact left by an earlier run.
OldArtifact ==
    << "export {};" >>

InitPass ==
    /\ Idle
    /\ input \in [ options  : { o \in CliOptions(Undefined) :
                                  o.pattern = TreePattern /\ o.exportType = Given("default") },
                   filePath : Range(SourceFiles),
                   content  : Contents \cup {Absent},
                   deny     : DenyKinds,
                   prior    : BOOLEAN ]
    /\ result = NoValue

\* Where the pass puts the artifact.
PassOutput ==
    getOutputPath(input.filePath, Constructor(input.options).output, Cwd)

\* The process and the disk before the pass: the file with its content, and
\* the artifact of an earlier run in its directory, if there was one.
BeforePass ==
    LET fresh == FreshRun([k \in SourceKeys |->
                              IF k = Key(input.filePath) THEN input.content ELSE Absent],
                          [k \in SourceKeys |-> input.deny])
    IN  IF input.prior
        THEN [fresh EXCEPT !.art = writeFileSync(@, Key(PassOutput), OldArtifact),
                           !.dirs = mkdirSync(@, PathDirname(PassOutput))]
        ELSE fresh

Pass ==
    /\ ~result.done
    /\ result' = Returned(processFile(BeforePass, Constructor(input.options),
                                      input.filePath))
    /\ UNCHANGED << input, sys >>

SpecPass ==
    InitPass /\ [][Pass]_vars

(***************************************************************************)
(* C26. A per-file pass mutates the filesystem only after load and class   *)
(* extraction have both succeeded: when load/compile or extraction fails,  *)
(* the pass creates no directory and writes nothing, and an artifact that  *)
(* already exists for the source stays as it was; in a successful pass the *)
(* parent directory exists when the one write is made, and the write       *)
(* leaves the file holding exactly the rendered text.                      *)
(***************************************************************************)
LoadOrExtractionFails ==
    Css(input.content).kind # "ok"

C26_WritesOnlyAfterExtraction ==
    result.done =>
        LET before == BeforePass
            after  == result.val
            out    == Key(PassOutput)
        IN  /\ LoadOrExtractionFails =>
                  /\ after.dirs = before.dirs
                  /\ after.art = before.art
                  /\ after.written = {}
                  /\ Key(input.filePath) \in after.errors
            /\ (~LoadOrExtractionFails /\ input.deny = "none") =>
                  /\ after.errors = {}
                  /\ after.written = {<< out, RenderingOf(input.content) >>}
                  /\ DOMAIN after.art = {out}
                  /\ after.art[out] = RenderingOf(input.content)
            /\ after.art # before.art =>
                  /\ Key(PathDirname(PassOutput)) \in after.dirs
                  /\ after.dirs = mkdirSync(before.dirs, PathDirname(PassOutput))

\* A pass whose extraction failed, over an artifact of an earlier run in
\* the output directory: the artifact is as it was.
C26_Witness ==
    /\ result.done
    /\ input.content = CssInvalid
    /\ input.prior
    /\ input.deny = "none"
    /\ input.options.output = Given(TypesDir)
    /\ input.filePath = FileB
    /\ result.val.art = [k \in {"/p/types/src/ui/b.module.scss.d.ts"} |-> OldArtifact]
    /\ result.val.errors = {Key(FileB)}

(***************************************************************************)
(* C27. The watch directory set is seeded from the discovery result that   *)
(* the seeding batch pass processed: every file that contributes a         *)
(* directory to the watch set was processed by the seeding pass, also when *)
(* files are created or removed while watch mode is starting.              *)
(***************************************************************************)
\* The files whose directories seed the watch set in this step.
SeedingFiles ==
    Range(glob(options.pattern, fsSrc))

C27_WatchSetFromSeedingPass ==
    [][ ObservationBegins =>
          /\ watchDirs' = getDirectoriesToWatch(glob(options.pattern, fsSrc),
                                                projectDir(options.pattern))
          /\ \A f \in SeedingFiles : Key(f) \in Discovered ]_vars

(***************************************************************************)
(* C28. Every source file that received an artifact in the seeding batch   *)
(* pass (every file matched by the glob pattern) is regenerated when a     *)
(* change event for it is delivered later in the same watch session, and   *)
(* has its artifact deleted when an unlink event for it is delivered.      *)
(***************************************************************************)
\* The seeding pass of the session wrote an artifact for the file.
Seeded(f) ==
    f \in SessionDiscovered

\* Where the seeding pass put the artifact of the file.
SeededArtifact(f) ==
    Key(getOutputPath(f, Constructor(input.options).output, Cwd))

C28_SeededFilesFollowed ==
    ( /\ result.done
      /\ result.val.last.kind \in {"change", "unlink"}
      /\ result.val.last.delivered
      /\ Seeded(result.val.last.path) )
    => LET out == SeededArtifact(result.val.last.path)
           art == result.val.run.art
       IN  /\ result.val.run.status = "active"
           /\ result.val.last.kind = "change" =>
                 /\ out \in DOMAIN art
                 /\ art[out] = RenderingOf(CssTwo)
           /\ result.val.last.kind = "unlink" => out \notin DOMAIN art

(***************************************************************************)
(* C29. Under export shapes 'named' and 'both', for every class-name set   *)
(* and every name convention, each standalone constant declaration names a *)
(* bare identifier (never a quoted string literal), and 'named' emits      *)
(* exactly one such declaration per class name.                            *)
(***************************************************************************)
\* The line is the standalone constant declaration of the token.
DeclaresConstant(line, token) ==
    line \in { ConstLine(token), DeclareConstLine(token) }

C29_ConstantsAreIdentifiers ==
    (result.done /\ input.exportType \in {"named", "both"}) =>
        /\ \A i \in 1..Len(result.val) :
              \A t \in AllTokens :
                  DeclaresConstant(result.val[i], t) => IsBareIdentifier(t)
        /\ input.exportType = "named" =>
              Cardinality({ i \in 1..Len(result.val) :
                              \E t \in AllTokens : DeclaresConstant(result.val[i], t) })
                  = Len(SetOrder(input.keys))

====
